---------------------------- MODULE Spec2Model ----------------------------
(***************************************************************************)
(* State-machine model of SolanaPayoutManager (src/solana_manager.py):     *)
(* the RPC endpoint pool and the retrying invoker (_perform), the          *)
(* recipient-file parser, the batched mass payment, the confirmation wait  *)
(* and the chunked airdrop.                                                *)
(*                                                                         *)
(* Strings that the code trims or splits are sequences of one-character    *)
(* strings.  Optional values are sequences of length 0 (None) or 1.        *)
(***************************************************************************)
EXTENDS Integers, Sequences, FiniteSets, TLC

\* ------------------------------------------------------------------ bounds
MaxUrls == 2          \* longest endpoint list handed to set_rpc_pool
MaxRetriesArg == 2    \* largest max_retries argument tried
MaxTimeout == 2       \* longest confirmation timeout tried, in poll sleeps
MaxLines == 3         \* longest recipient file tried, in lines
MaxRecipients == 3    \* longest recipient list handed to send_mass_payments
MaxBatch == 2         \* largest max_per_transaction tried

\* --------------------------------------------------------------- optionals
None == <<>>
Some(x) == <<x>>
IsNone(o) == o = <<>>
Val(o) == o[1]

Min(a, b) == IF a <= b THEN a ELSE b
Max(a, b) == IF a >= b THEN a ELSE b

\* ---------------------------------------------------------------- strings
\* str.strip(): leading and trailing blanks removed.
RECURSIVE LStrip(_)
LStrip(s) == IF s # <<>> /\ Head(s) = " " THEN LStrip(Tail(s)) ELSE s
RECURSIVE RStrip(_)
RStrip(s) == IF s # <<>> /\ s[Len(s)] = " " THEN RStrip(SubSeq(s, 1, Len(s) - 1)) ELSE s
Strip(s) == RStrip(LStrip(s))

\* The raw endpoint strings a caller may pass.
RawUrls == { <<" ">>, <<"a">>, <<" ", "a">>, <<"b">>, <<"c">> }
RECURSIVE SeqsUpTo(_, _)
SeqsUpTo(S, n) ==
    IF n = 0 THEN { <<>> }
    ELSE LET shorter == SeqsUpTo(S, n - 1)
         IN shorter \cup { Append(q, x) : q \in { r \in shorter : Len(r) = n - 1 }, x \in S }
UrlLists == SeqsUpTo(RawUrls, MaxUrls)

\* The errors a transport call may raise.
Errors == { "E1", "E2" }
NoError == "None"

VARIABLES
    \* manager fields
    rpc_endpoints,              \* self.rpc_endpoints
    current_endpoint_index,     \* self._current_endpoint_index
    endpoint,                   \* self.endpoint
    client,                     \* self.client: the endpoint and timeout it was built for
    max_retries_per_endpoint,   \* self.max_retries_per_endpoint
    retry_backoff_seconds,      \* self.retry_backoff_seconds
    timeout,                    \* self.timeout
    \* locals of the running _perform
    attempts, total_endpoints, max_attempts, last_error,
    \* control: the operation in flight or last finished, its position, its result
    op, pc, outcome, raised,
    \* observation of the transport: every call made by the latest _perform,
    \* the error the most recent call raised (none if it returned), the last
    \* back-off sleep, the active index when the operation started
    calls, call_error, slept, start_index,
    \* the clock (time.time()), in ticks of one confirmation-poll sleep (0.8 s),
    \* counted from the start of the running operation or payment chunk
    now,
    \* the endpoints argument of the set_rpc_pool call last made
    urls,
    \* locals of the running _await_confirmation
    signature, deadline, commitment, last_status,
    \* observation of the polls of the running wait: how many returned, what the
    \* latest returned, and the latest status that was present
    polls, last_polled, last_present,
    \* the recipient file on disk (whether it exists, and its lines);
    \* read_recipients_from_file: the default amount it was called with, the list
    \* it returned, and self.last_recipient_warnings
    file_exists, file, default_amount_sol, returned, last_recipient_warnings,
    \* manager fields read by send_mass_payments
    wallet,                           \* whether self.wallet is loaded
    default_max_recipients_per_tx,    \* self.default_max_recipients_per_tx
    default_compute_unit_limit,       \* self.default_compute_unit_limit
    default_compute_unit_price,       \* self.default_compute_unit_price
    \* arguments and locals of the running send_mass_payments
    recipients, max_per_transaction, batch_size, compute_unit_limit, compute_unit_price,
    chunk_index,                      \* index of _chunk's range()
    signatures, instructions, tx,
    \* observation of the ledger during the running operation: the distinct
    \* transactions that reached it, the blockhash queries it answered, and the
    \* signatures whose confirmation wait returned
    ledger, blockhashes, confirmed,
    \* arguments and locals of the running request_airdrop: the amount and the
    \* chunk limit as Decimals, max_attempts, pause_seconds; the amount remaining
    \* and the pauses made between chunks; the chunk in hand
    decimal_amount, chunk_limit, airdrop_max_attempts, pause_seconds,
    remaining, pauses,
    chunk_amount, chunk_lamports,
    \* locals of the running _request_airdrop_lamports, and the observation of
    \* its chunk: the sleeps between its attempts and its transport calls
    attempt, request_error, retry_sleeps, request_calls,
    \* the airdrop requests the faucet has answered, and request_airdrop's signatures
    airdrops, airdrop_signatures,
    \* observation: the chunk_amount of every airdrop request the faucet answered
    chunk_amounts,
    \* the value get_balance_sol returned
    balance_sol,
    \* self.accounts_query_chunk
    accounts_query_chunk,
    \* argument and locals of the running fetch_balances: addresses (and order,
    \* its copy), unique, the index of _chunk's range(), balances_unique; the
    \* queries that were answered (pubkeys and response.value); the dict it returned
    fetch_addresses, unique_addresses, fetch_index, balances_unique, queries, balances,
    \* argument and locals of the running ping: timeout_seconds, is_ok, elapsed
    ping_timeout, is_ok, elapsed,
    \* the window (solana_gui.py): the state of its action_buttons; the update
    \* callbacks _set_busy has posted with after(0, ...) and the event loop has
    \* not run yet; its worker threads; whether the pool dialog and the
    \* confirmation box of the send button are open; whether self.recipients is
    \* non-empty
    button_state, after_queue, workers, pool_dialog, confirming, gui_recipients,
    \* observation: the manager calls that were started while the manager was
    \* inside a send_mass_payments of a worker thread
    overlaps,
    \* threads of one manager at statement level: the threads of _run_background
    \* inside _perform and _rotate_endpoint, each with its locals, and the main
    \* thread inside the assignments of set_rpc_pool
    bg_threads, pool_call,
    \* the window's recipients: the Recipient objects ever made by a load, the
    \* list self.recipients (of object identities), the send threads with the
    \* list each was handed and the transfers it has built, whether the
    \* confirmation box is open, whether the reload timer of after(500, ...)
    \* is set, and whether recipient_file_var holds a path
    heap, shown, send_jobs, confirm_open, reload_pending, path_chosen,
    \* observation: how the load made by the step that led here ended
    load_result

poolVars == <<rpc_endpoints, current_endpoint_index, endpoint, client>>
cfgVars == <<max_retries_per_endpoint, retry_backoff_seconds, timeout>>
perfVars == <<attempts, total_endpoints, max_attempts, last_error>>
ctlVars == <<op, pc, outcome, raised>>
obsVars == <<calls, call_error, slept, start_index>>
awaitVars == <<signature, deadline, commitment, last_status, polls, last_polled, last_present>>
parseVars == <<file_exists, file, default_amount_sol, returned, last_recipient_warnings>>
payCfgVars == <<wallet, default_max_recipients_per_tx, default_compute_unit_limit,
                default_compute_unit_price>>
payArgVars == <<recipients, max_per_transaction, batch_size, compute_unit_limit,
                compute_unit_price>>
payLoopVars == <<chunk_index, signatures, confirmed>>
payTxVars == <<instructions, tx, ledger, blockhashes>>
payVars == <<payCfgVars, payArgVars, payLoopVars, payTxVars>>
poolArgVars == <<urls>>
fetchVars == <<fetch_addresses, unique_addresses, fetch_index, balances_unique, queries, balances>>
pingVars == <<ping_timeout, is_ok, elapsed>>
queryVars == <<accounts_query_chunk, fetchVars, pingVars>>
guiVars == <<button_state, after_queue, workers, pool_dialog, confirming, gui_recipients, overlaps>>
airArgVars == <<decimal_amount, chunk_limit, airdrop_max_attempts, pause_seconds>>
airLoopVars == <<remaining, pauses>>
airReqVars == <<chunk_amount, chunk_lamports, attempt, request_error, retry_sleeps, request_calls,
                airdrops, airdrop_signatures, chunk_amounts>>
balVars == <<balance_sol>>
walletOpVars == <<airArgVars, airReqVars, balVars>>
raceVars == <<bg_threads, pool_call>>
sendVars == <<heap, shown, send_jobs, confirm_open, reload_pending, path_chosen, load_result>>
threadVars == <<raceVars, sendVars>>
appVars == <<awaitVars, parseVars, poolArgVars, threadVars, payVars, walletOpVars, airLoopVars, queryVars, guiVars>>
vars == <<poolVars, cfgVars, perfVars, ctlVars, obsVars, now, appVars>>

\* What a raised exception carries: its kind, the underlying error it was raised
\* from, the status and the signatures its message shows.
Raise(type, cause, status, sigs) == [type |-> type, cause |-> cause, status |-> status, sigs |-> sigs]
NoRaise == Raise("None", NoError, None, <<>>)
NoSignature == [bh |-> 0, ix |-> <<>>]

\* -------------------------------------------------------------- the pool
\* Mutation of UniqueCleaned: the test against seen is dropped.
RECURSIVE UniqueCleaned_NoDedup(_, _)
UniqueCleaned_NoDedup(endpoints, unique) ==
    IF endpoints = <<>> THEN unique
    ELSE LET cleaned == Strip(Head(endpoints))
         IN IF cleaned = <<>> THEN UniqueCleaned_NoDedup(Tail(endpoints), unique)
            ELSE UniqueCleaned_NoDedup(Tail(endpoints), Append(unique, cleaned))

\* set_rpc_pool, lines 94-102: trim, drop blanks, drop later duplicates.
RECURSIVE UniqueCleaned(_, _)
UniqueCleaned(endpoints, unique) ==
    IF endpoints = <<>> THEN unique
    ELSE LET cleaned == Strip(Head(endpoints))
         IN IF cleaned = <<>> THEN UniqueCleaned(Tail(endpoints), unique)
            ELSE IF \E i \in 1..Len(unique) : unique[i] = cleaned
                 THEN UniqueCleaned(Tail(endpoints), unique)
                 ELSE UniqueCleaned(Tail(endpoints), Append(unique, cleaned))

NewClient(url, to) == [url |-> url, timeout |-> to]

\* The values set_rpc_pool leaves in the retry configuration.
RetriesAfter(max_retries) == IF IsNone(max_retries) THEN max_retries_per_endpoint ELSE Val(max_retries)
BackoffAfter(retry_backoff) == IF IsNone(retry_backoff) THEN retry_backoff_seconds ELSE Val(retry_backoff)
TimeoutAfter(timeout_arg) == IF IsNone(timeout_arg) THEN timeout ELSE Val(timeout_arg)

\* set_rpc_pool as one call; the assignments made before a raise are kept.
set_rpc_pool(endpoints, max_retries, retry_backoff, timeout_arg) ==
    LET unique == UniqueCleaned(endpoints, <<>>)
    IN /\ pc = "idle"
       /\ op' = "set_rpc_pool"
       /\ pc' = "done"
       /\ calls' = <<>>
       /\ call_error' = NoError
       /\ slept' = 0
       /\ start_index' = current_endpoint_index
       /\ now' = 0
       /\ urls' = endpoints
       /\ UNCHANGED <<perfVars, awaitVars, parseVars, payVars, airLoopVars, walletOpVars, queryVars, guiVars, threadVars>>
       /\ IF unique = <<>>
          THEN /\ outcome' = "ValueError"
               /\ raised' = Raise("NoEndpoint", NoError, None, <<>>)
               /\ UNCHANGED <<poolVars, cfgVars>>
          ELSE IF ~IsNone(max_retries) /\ Val(max_retries) < 1
          THEN /\ outcome' = "ValueError"
               /\ raised' = Raise("BadMaxRetries", NoError, None, <<>>)
               /\ UNCHANGED <<poolVars, cfgVars>>
          ELSE IF ~IsNone(retry_backoff) /\ Val(retry_backoff) < 0
          THEN /\ outcome' = "ValueError"
               /\ raised' = Raise("BadBackoff", NoError, None, <<>>)
               /\ max_retries_per_endpoint' = RetriesAfter(max_retries)
               /\ UNCHANGED <<poolVars, retry_backoff_seconds, timeout>>
          ELSE /\ outcome' = "ok"
               /\ raised' = NoRaise
               /\ max_retries_per_endpoint' = RetriesAfter(max_retries)
               /\ retry_backoff_seconds' = BackoffAfter(retry_backoff)
               /\ timeout' = TimeoutAfter(timeout_arg)
               /\ rpc_endpoints' = unique
               /\ current_endpoint_index' = 0
               /\ endpoint' = unique[1]
               /\ client' = NewClient(unique[1], TimeoutAfter(timeout_arg))

\* set_endpoint, lines 83-85.
set_endpoint(endpoint_arg, timeout_arg) == set_rpc_pool(<<endpoint_arg>>, None, None, timeout_arg)

\* Mutation of rotate_endpoint: the index is advanced without the modulus.
rotate_endpoint_NoWrap ==
    IF Len(rpc_endpoints) <= 1
    THEN UNCHANGED <<current_endpoint_index, endpoint, client>>
    ELSE LET next == current_endpoint_index + 1
         IN /\ current_endpoint_index' = next
            /\ endpoint' = rpc_endpoints[(next % Len(rpc_endpoints)) + 1]
            /\ client' = NewClient(rpc_endpoints[(next % Len(rpc_endpoints)) + 1], timeout)

\* _rotate_endpoint, lines 138-143.
rotate_endpoint ==
    IF Len(rpc_endpoints) <= 1
    THEN UNCHANGED <<current_endpoint_index, endpoint, client>>
    ELSE LET next == (current_endpoint_index + 1) % Len(rpc_endpoints)
         IN /\ current_endpoint_index' = next
            /\ endpoint' = rpc_endpoints[next + 1]
            /\ client' = NewClient(rpc_endpoints[next + 1], timeout)


\* ------------------------------------------------------------ the invoker
\* _perform, line 123: the attempt budget.
MaxAttempts(total, retries) == total * retries

\* Mutation of ShouldRotate: the modulus test is dropped.
ShouldRotate_EveryFailure(total, att, retries) == total > 1

\* _perform, line 132: rotate after this failure?
ShouldRotate(total, att, retries) == total > 1 /\ att % retries = 0

\* Mutation of LastErrorAfter: only the first error is kept.
LastErrorAfter_KeepFirst(prev, exc) == IF prev = NoError THEN exc ELSE prev

\* _perform, line 129: the error kept for the final raise.
LastErrorAfter(prev, exc) == exc

\* _perform, line 131: the sleep after the att-th failure.
Backoff(att) == retry_backoff_seconds * Min(att, 4)

\* _perform, lines 121-124: entering the retry loop.
PerformEnter ==
    /\ attempts' = 0
    /\ total_endpoints' = Len(rpc_endpoints)
    /\ max_attempts' = MaxAttempts(Len(rpc_endpoints), max_retries_per_endpoint)
    /\ last_error' = NoError

\* One call of func(self.client), as the transport sees it; the log holds the
\* calls of one _perform and starts again with the first attempt of the next.
TransportCall(method) ==
    calls' = Append(IF attempts = 0 THEN <<>> ELSE calls, [m |-> method, url |-> client.url])

\* Mutation of PerformExcept: the endpoint that used up its retries is taken
\* out of the pool.
PerformExcept_DropsEndpoint(exc) ==
    /\ last_error' = LastErrorAfter(last_error, exc)
    /\ attempts' = attempts + 1
    /\ slept' = Backoff(attempts + 1)
    /\ now' = now + Backoff(attempts + 1)
    /\ IF ShouldRotate(total_endpoints, attempts + 1, max_retries_per_endpoint)
          /\ Len(rpc_endpoints) > 1
       THEN LET kept == SelectSeq(rpc_endpoints, LAMBDA u : u # endpoint)
                next == current_endpoint_index % Len(kept)
            IN /\ rpc_endpoints' = kept
               /\ current_endpoint_index' = next
               /\ endpoint' = kept[next + 1]
               /\ client' = NewClient(kept[next + 1], timeout)
       ELSE UNCHANGED <<rpc_endpoints, current_endpoint_index, endpoint, client>>
    /\ UNCHANGED <<total_endpoints, max_attempts>>

\* Mutation of PerformExcept: the failure that spends the budget does not rotate.
PerformExcept_NoFinalRotation(exc) ==
    /\ last_error' = LastErrorAfter(last_error, exc)
    /\ attempts' = attempts + 1
    /\ slept' = Backoff(attempts + 1)
    /\ now' = now + Backoff(attempts + 1)
    /\ IF ShouldRotate(total_endpoints, attempts + 1, max_retries_per_endpoint)
          /\ attempts + 1 < max_attempts
       THEN rotate_endpoint
       ELSE UNCHANGED <<current_endpoint_index, endpoint, client>>
    /\ UNCHANGED <<rpc_endpoints, total_endpoints, max_attempts>>

\* _perform, lines 128-133: the except branch of one failed attempt.
PerformExcept(exc) ==
    /\ last_error' = LastErrorAfter(last_error, exc)
    /\ attempts' = attempts + 1
    /\ slept' = Backoff(attempts + 1)
    /\ now' = now + Backoff(attempts + 1)
    /\ IF ShouldRotate(total_endpoints, attempts + 1, max_retries_per_endpoint)
       THEN rotate_endpoint
       ELSE UNCHANGED <<current_endpoint_index, endpoint, client>>
    /\ UNCHANGED <<rpc_endpoints, total_endpoints, max_attempts>>

\* _perform, lines 134-136: the raise once the budget is spent.
RetryExhausted(cause) == Raise("RetryExhausted", cause, None, <<>>)

\* A caller starts an operation: the observations of the previous one are dropped.
StartOp(name) ==
    /\ pc = "idle"
    /\ op' = name
    /\ calls' = <<>>
    /\ call_error' = NoError
    /\ slept' = 0
    /\ start_index' = current_endpoint_index
    /\ now' = 0

\* ------------------------------------------------- a bare invoke of _perform
\* self._perform(func) for an arbitrary func, as ping and get_balance_sol make it.
InvokeCall ==
    /\ StartOp("invoke")
    /\ pc' = "perform"
    /\ outcome' = "none"
    /\ raised' = NoRaise
    /\ PerformEnter
    /\ UNCHANGED <<poolVars, cfgVars, appVars>>

\* Mutation of InvokeAttemptOk: a successful call puts the pool back on the
\* endpoint the invoke started with.
InvokeAttemptOk_RestoresStart ==
    /\ op = "invoke" /\ pc = "perform"
    /\ attempts < max_attempts
    /\ TransportCall("func")
    /\ pc' = "done"
    /\ outcome' = "ok"
    /\ call_error' = NoError
    /\ current_endpoint_index' = start_index
    /\ endpoint' = rpc_endpoints[start_index + 1]
    /\ client' = NewClient(rpc_endpoints[start_index + 1], timeout)
    /\ UNCHANGED <<rpc_endpoints, cfgVars, perfVars, op, raised, slept, start_index, now, appVars>>

\* func(self.client) returns: _perform returns its value (line 127).
InvokeAttemptOk ==
    /\ op = "invoke" /\ pc = "perform"
    /\ attempts < max_attempts
    /\ TransportCall("func")
    /\ pc' = "done"
    /\ outcome' = "ok"
    /\ call_error' = NoError
    /\ UNCHANGED <<poolVars, cfgVars, perfVars, op, raised, slept, start_index, now, appVars>>

\* func(self.client) raises exc.
InvokeAttemptFail(exc) ==
    /\ op = "invoke" /\ pc = "perform"
    /\ attempts < max_attempts
    /\ TransportCall("func")
    /\ call_error' = exc
    /\ PerformExcept(exc)
    /\ IF attempts + 1 < max_attempts
       THEN UNCHANGED <<pc, outcome, raised>>
       ELSE /\ pc' = "done"
            /\ outcome' = "RuntimeError"
            /\ raised' = RetryExhausted(last_error')
    /\ UNCHANGED <<cfgVars, op, start_index, appVars>>

\* ------------------------------------------------- _await_confirmation
\* The statuses get_signature_statuses may return for one signature: err,
\* confirmation_status (as str() prints it) and confirmations.
StatusLevels == { "None", "processed", "confirmed", "Finalized" }
Statuses ==
    [err : {"None", "InstructionError"}, confirmation_status : StatusLevels,
     confirmations : {None, Some(0), Some(1)}]
PollResults == {None} \cup { Some(st) : st \in Statuses }
Commitments == { "confirmed", "finalized" }

\* str.lower() on the level names.
Lower(name) ==
    CASE name = "Finalized" -> "finalized"
      [] name = "Confirmed" -> "confirmed"
      [] name = "Processed" -> "processed"
      [] OTHER -> name

\* Mutation of ClassifyStatus: level and confirmation count are tested before err.
ClassifyStatus_LevelFirst(status, wanted) ==
    IF IsNone(status) THEN "absent"
    ELSE LET st == Val(status)
         IN IF st.confirmation_status # "None"
                    /\ Lower(st.confirmation_status) \in {"confirmed", "finalized"}
                 THEN "success"
            ELSE IF ~IsNone(st.confirmations) /\ Val(st.confirmations) > 0 THEN "success"
            ELSE IF st.err # "None" THEN "failed"
            ELSE "pending"

\* Mutation of ClassifyStatus: the confirmation count is not looked at.
ClassifyStatus_NoCountFallback(status, wanted) ==
    IF IsNone(status) THEN "absent"
    ELSE LET st == Val(status)
         IN IF st.err # "None" THEN "failed"
            ELSE IF st.confirmation_status # "None"
                    /\ Lower(st.confirmation_status) \in {"confirmed", "finalized"}
                 THEN "success"
            ELSE "pending"

\* _await_confirmation, lines 455-465: what one polled status means for the wait.
\* The requested commitment is not consulted.
ClassifyStatus(status, wanted) ==
    IF IsNone(status) THEN "absent"
    ELSE LET st == Val(status)
         IN IF st.err # "None" THEN "failed"
            ELSE IF st.confirmation_status # "None"
                    /\ Lower(st.confirmation_status) \in {"confirmed", "finalized"}
                 THEN "success"
            ELSE IF ~IsNone(st.confirmations) /\ Val(st.confirmations) > 0 THEN "success"
            ELSE "pending"

\* _await_confirmation, line 452: the loop condition.
LoopContinues(t, d) == t < d

\* Mutation of LastStatusAfter: the first pending status is kept.
LastStatusAfter_KeepFirst(prev, st) == IF IsNone(prev) THEN Some(st) ELSE prev

\* _await_confirmation, line 466.
LastStatusAfter(prev, st) == Some(st)

\* _await_confirmation, lines 459 and 468-470: the exceptions of the wait.
TransactionFailed(sig, err) == Raise("TransactionFailed", err, None, <<sig>>)
ConfirmationTimeout(sig, status) == Raise("ConfirmationTimeout", NoError, status, <<sig>>)

\* The locals of a wait that has returned are gone.
AwaitReset ==
    /\ signature' = NoSignature /\ deadline' = 0 /\ commitment' = "confirmed"
    /\ last_status' = None /\ polls' = 0 /\ last_polled' = <<>> /\ last_present' = None

\* Mutation of NextChunkIndex: the range advances by one item.
NextChunkIndex_ByOne(index, size) == index + 1

\* _chunk, line 484: the step of range(0, len(items), size).
NextChunkIndex(index, size) == index + size

\* Mutation of PausesAfter: request_airdrop sleeps after every chunk.
PausesAfter_EveryChunk(made, left) == made + 1

\* request_airdrop, lines 222-223: the sleeps of pause_seconds made so far, once
\* a chunk is confirmed and left is the amount that remains.
PausesAfter(made, left) == IF left > 0 THEN made + 1 ELSE made

\* Mutation of AwaitFinish: send_mass_payments takes the next chunk however the
\* wait ended.
AwaitFinish_ProceedAnyway(caller, result, exc) ==
    /\ confirmed' = IF result = "ok" THEN Append(confirmed, signature') ELSE confirmed
    /\ IF caller = "pay"
       THEN /\ pc' = "loop"
            /\ signatures' = Append(signatures, signature')
            /\ chunk_index' = NextChunkIndex(chunk_index, batch_size)
            /\ UNCHANGED <<outcome, raised, airLoopVars>>
       ELSE /\ pc' = "done"
            /\ outcome' = result
            /\ raised' = exc
            /\ UNCHANGED <<chunk_index, signatures, airLoopVars>>

\* The wait ends (lines 459, 462, 465, 468, or the raise of _perform): its
\* caller goes on.  send_mass_payments appends the signature and takes the next
\* chunk (lines 347-348); request_airdrop takes the chunk off the remaining
\* amount and pauses if an amount remains (lines 221-223); both let an
\* exception through; a direct call is over.
AwaitFinish(caller, result, exc) ==
    /\ confirmed' = IF result = "ok" THEN Append(confirmed, signature') ELSE confirmed
    /\ IF caller = "pay" /\ result = "ok"
       THEN /\ pc' = "loop"
            /\ signatures' = Append(signatures, signature')
            /\ chunk_index' = NextChunkIndex(chunk_index, batch_size)
            /\ UNCHANGED <<outcome, raised, airLoopVars>>
       ELSE IF caller = "airdrop" /\ result = "ok"
       THEN /\ pc' = "air_loop"
            /\ remaining' = remaining - chunk_amount
            /\ pauses' = PausesAfter(pauses, remaining - chunk_amount)
            /\ UNCHANGED <<outcome, raised, chunk_index, signatures>>
       ELSE /\ pc' = "done"
            /\ outcome' = result
            /\ raised' = exc
            /\ UNCHANGED <<chunk_index, signatures, airLoopVars>>

\* _await_confirmation, lines 452 and 468: the loop head at clock t, with
\* deadline d and last status ls.
AwaitLoop(caller, sig, t, d, ls) ==
    IF LoopContinues(t, d)
    THEN /\ pc' = "poll"
         /\ PerformEnter
         /\ UNCHANGED <<outcome, raised, payLoopVars, airLoopVars>>
    ELSE /\ AwaitFinish(caller, "TimeoutError", ConfirmationTimeout(sig, ls))
         /\ UNCHANGED perfVars

\* _await_confirmation, lines 449-452.
AwaitEnter(caller, sig, t, timeout_seconds, wanted) ==
    /\ signature' = sig
    /\ deadline' = t + timeout_seconds
    /\ commitment' = wanted
    /\ last_status' = None
    /\ polls' = 0
    /\ last_polled' = <<>>
    /\ last_present' = None
    /\ AwaitLoop(caller, sig, t, t + timeout_seconds, None)

\* A direct call of _await_confirmation(signature, timeout_seconds, commitment).
AwaitCall(timeout_seconds, wanted) ==
    /\ StartOp("await")
    /\ AwaitEnter("await", NoSignature, 0, timeout_seconds, wanted)
    /\ UNCHANGED <<poolVars, cfgVars, parseVars, poolArgVars, threadVars, guiVars, queryVars, walletOpVars, payCfgVars, payArgVars, payTxVars>>

\* One status query returns (lines 453-467).
AwaitPollOk(status) ==
    /\ pc = "poll"
    /\ attempts < max_attempts
    /\ TransportCall("get_signature_statuses")
    /\ polls' = polls + 1
    /\ last_polled' = <<status>>
    /\ last_present' = IF IsNone(status) THEN last_present ELSE status
    /\ UNCHANGED <<signature, deadline, commitment>>
    /\ LET verdict == ClassifyStatus(status, commitment)
       IN CASE verdict = "absent" ->
                 /\ now' = now + 1
                 /\ last_status' = last_status
                 /\ AwaitLoop(op, signature, now + 1, deadline, last_status)
            [] verdict = "failed" ->
                 /\ AwaitFinish(op, "RuntimeError", TransactionFailed(signature, Val(status).err))
                 /\ UNCHANGED <<now, last_status, perfVars>>
            [] verdict = "success" ->
                 /\ AwaitFinish(op, "ok", NoRaise)
                 /\ UNCHANGED <<now, last_status, perfVars>>
            [] OTHER ->
                 /\ now' = now + 1
                 /\ last_status' = LastStatusAfter(last_status, Val(status))
                 /\ AwaitLoop(op, signature, now + 1, deadline, LastStatusAfter(last_status, Val(status)))
    /\ call_error' = NoError
    /\ UNCHANGED <<poolVars, cfgVars, op, slept, start_index,
                   parseVars, poolArgVars, threadVars, guiVars, queryVars, walletOpVars, payCfgVars, payArgVars, payTxVars>>

\* Mutation of AwaitPollFail: the wait swallows the failure of a status query
\* and queries again at once.
AwaitPollFail_Swallowed(exc) ==
    /\ pc = "poll"
    /\ attempts < max_attempts
    /\ TransportCall("get_signature_statuses")
    /\ call_error' = exc
    /\ PerformEnter
    /\ UNCHANGED <<poolVars, slept, now, awaitVars>>
    /\ UNCHANGED <<pc, outcome, raised, payLoopVars, airLoopVars>>
    /\ UNCHANGED <<cfgVars, op, start_index, parseVars, poolArgVars, threadVars, guiVars, queryVars, walletOpVars, payCfgVars, payArgVars, payTxVars>>

\* One status query raises exc inside _perform.
AwaitPollFail(exc) ==
    /\ pc = "poll"
    /\ attempts < max_attempts
    /\ TransportCall("get_signature_statuses")
    /\ call_error' = exc
    /\ PerformExcept(exc)
    /\ UNCHANGED awaitVars
    /\ IF attempts + 1 < max_attempts
       THEN UNCHANGED <<pc, outcome, raised, payLoopVars, airLoopVars>>
       ELSE AwaitFinish(op, "RuntimeError", RetryExhausted(last_error'))
    /\ UNCHANGED <<cfgVars, op, start_index, parseVars, poolArgVars, threadVars, guiVars, queryVars, walletOpVars, payCfgVars, payArgVars, payTxVars>>

\* ------------------------------------------------ the recipient file
\* LAMPORTS_PER_SOL (line 26), scaled from 10^9 to 10^3 so that sums of
\* lamports stay inside TLC's integers; the code's Decimal arithmetic is exact,
\* so only the ratio between an amount and one lamport matters.
LAMPORTS_PER_SOL == 1000

\* A Decimal is the integer number of tenths of a lamport it stands for.
DecimalScale == 10 * LAMPORTS_PER_SOL

\* A line is a sequence of symbols: blanks, separators, "#", the byte-order
\* mark, and words the code never looks inside (addresses and amount texts).
Separators == { " ", ",", ";" }
ValidAddresses == { <<"A">>, <<"B">> }
FileLines ==
    { <<"A", " ", "1">>,
      <<"A", ",", "2">>,
      <<"B", ";", " ", "1.5lamports">>,
      <<"B">>,
      <<"bad", " ", "1">>,
      <<"#", " ", "A">>,
      <<" ">>,
      <<"A", " ", "0.1lamport">>,
      <<"B", " ", "0">>,
      <<"A", " ", "-1">>,
      <<"B", " ", "x">>,
      <<"BOM", " ", "B", " ", "2", " ", "1">> }
DefaultAmounts == { None, Some(DecimalScale), Some(1) }

\* str.lstrip("﻿"), line 263.
RECURSIVE LStripBom(_)
LStripBom(s) == IF s # <<>> /\ Head(s) = "BOM" THEN LStripBom(Tail(s)) ELSE s

\* re.split(r"[\s,;]+", line) without its empty tokens, line 388.
RECURSIVE SplitTokens(_, _, _)
SplitTokens(s, current, tokens) ==
    IF s = <<>>
    THEN IF current = <<>> THEN tokens ELSE Append(tokens, current)
    ELSE IF Head(s) \in Separators
         THEN SplitTokens(Tail(s), <<>>, IF current = <<>> THEN tokens ELSE Append(tokens, current))
         ELSE SplitTokens(Tail(s), Append(current, Head(s)), tokens)

\* Decimal(amount_text), line 401: the value, or None where Decimal() raises.
DecimalOf(text) ==
    CASE text = <<"1">> -> Some(DecimalScale)
      [] text = <<"2">> -> Some(2 * DecimalScale)
      [] text = <<"1.5lamports">> -> Some(15)
      [] text = <<"0.1lamport">> -> Some(1)
      [] text = <<"0">> -> Some(0)
      [] text = <<"-1">> -> Some(0 - DecimalScale)
      [] OTHER -> None

\* to_integral_value(rounding=ROUND_DOWN), line 438: truncation toward zero.
RoundDown(n, d) == IF n >= 0 THEN n \div d ELSE 0 - ((0 - n) \div d)

\* Mutation of sol_to_lamports: the test of the converted amount is dropped.
sol_to_lamports_AllowZero(amount_sol) ==
    IF amount_sol <= 0 THEN None
    ELSE Some(RoundDown(amount_sol * LAMPORTS_PER_SOL, DecimalScale))

\* _sol_to_lamports, lines 433-441: the lamports, or None where it raises ValueError.
sol_to_lamports(amount_sol) ==
    IF amount_sol <= 0 THEN None
    ELSE LET lamports == RoundDown(amount_sol * LAMPORTS_PER_SOL, DecimalScale)
         IN IF lamports <= 0 THEN None ELSE Some(lamports)

Warning(type, line, detail, count) == [type |-> type, line |-> line, detail |-> detail, count |-> count]
Recipient(address, lamports) == [address |-> address, lamports |-> lamports]

\* _parse_recipient_line, lines 382-417: a Recipient, a RecipientParseError
\* (kind "warning") or the ValueError of _sol_to_lamports (kind "error").
parse_recipient_line(line, line_number, default) ==
    LET tokens == SplitTokens(line, <<>>, <<>>)
    IN IF tokens = <<>>
       THEN [kind |-> "warning", value |-> Warning("EmptyLine", line_number, <<>>, 0)]
       ELSE IF tokens[1] \notin ValidAddresses
       THEN [kind |-> "warning", value |-> Warning("BadAddress", line_number, tokens[1], 0)]
       ELSE IF Len(tokens) > 1 /\ IsNone(DecimalOf(tokens[2]))
       THEN [kind |-> "warning", value |-> Warning("BadAmount", line_number, tokens[2], 0)]
       ELSE IF Len(tokens) <= 1 /\ IsNone(default)
       THEN [kind |-> "warning", value |-> Warning("NoAmount", line_number, <<>>, 0)]
       ELSE LET amount_sol == IF Len(tokens) > 1 THEN Val(DecimalOf(tokens[2])) ELSE Val(default)
                lamports == sol_to_lamports(amount_sol)
            IN IF IsNone(lamports)
               THEN [kind |-> "error", value |-> Warning("ValueError", line_number, tokens[1], 0)]
               ELSE [kind |-> "recipient", value |-> Recipient(tokens[1], Val(lamports))]

\* Lines 262-265: the line as it reaches the parser, or None where it is skipped.
CleanLine(raw_line) ==
    LET line == LStripBom(Strip(raw_line))
    IN IF line = <<>> \/ Head(line) = "#" THEN None ELSE Some(line)

\* Lines 261-271: the loop over the lines, from line i on; an error that is
\* not a RecipientParseError leaves the loop and the function.
RECURSIVE ParseLines(_, _, _, _, _)
ParseLines(lines, i, default, recipients_raw, warnings) ==
    IF i > Len(lines)
    THEN [failed |-> FALSE, recipients_raw |-> recipients_raw, warnings |-> warnings]
    ELSE LET line == CleanLine(lines[i])
         IN IF IsNone(line) THEN ParseLines(lines, i + 1, default, recipients_raw, warnings)
            ELSE LET parsed == parse_recipient_line(Val(line), i, default)
                 IN CASE parsed.kind = "warning" ->
                           ParseLines(lines, i + 1, default, recipients_raw, Append(warnings, parsed.value))
                      [] parsed.kind = "error" ->
                           [failed |-> TRUE, recipients_raw |-> recipients_raw, warnings |-> warnings]
                      [] OTHER ->
                           ParseLines(lines, i + 1, default, Append(recipients_raw, parsed.value), warnings)

IndexOfAddress(list, address) ==
    IF \E i \in 1..Len(list) : list[i].address = address
    THEN CHOOSE i \in 1..Len(list) : list[i].address = address
    ELSE 0

\* Mutation of MergeLamports: a later line overwrites the amount.
MergeLamports_Overwrite(old, new) == new

\* Line 277: the merge of one more line into an aggregated recipient.
MergeLamports(old, new) == old + new

\* Lines 272-280: the dicts aggregated and duplicates_counter, in insertion order.
RECURSIVE Aggregate(_, _, _)
Aggregate(recipients_raw, aggregated, duplicates_counter) ==
    IF recipients_raw = <<>>
    THEN [aggregated |-> aggregated, duplicates_counter |-> duplicates_counter]
    ELSE LET recipient == Head(recipients_raw)
             at == IndexOfAddress(aggregated, recipient.address)
             dup == IndexOfAddress(duplicates_counter, recipient.address)
         IN IF at > 0
            THEN Aggregate(Tail(recipients_raw),
                    [aggregated EXCEPT ![at].lamports = MergeLamports(@, recipient.lamports)],
                    IF dup > 0
                    THEN [duplicates_counter EXCEPT ![dup].count = @ + 1]
                    ELSE Append(duplicates_counter, [address |-> recipient.address, count |-> 1]))
            ELSE Aggregate(Tail(recipients_raw),
                    Append(aggregated, Recipient(recipient.address, recipient.lamports)),
                    duplicates_counter)

\* Mutation of DuplicateWarnings: the warning reports the merges, not the
\* occurrences.
DuplicateWarnings_MergeCount(duplicates_counter) ==
    [i \in 1..Len(duplicates_counter) |->
        Warning("Duplicate", 0, duplicates_counter[i].address, duplicates_counter[i].count)]

\* Lines 281-284: one warning per entry of duplicates_counter.
DuplicateWarnings(duplicates_counter) ==
    [i \in 1..Len(duplicates_counter) |->
        Warning("Duplicate", 0, duplicates_counter[i].address, duplicates_counter[i].count + 1)]

\* The user creates the recipient file, empty.
CreateFile ==
    /\ pc = "idle"
    /\ ~file_exists
    /\ file_exists' = TRUE
    /\ UNCHANGED <<poolVars, cfgVars, perfVars, ctlVars, obsVars, now, awaitVars, payVars, airLoopVars,
                   poolArgVars, threadVars, guiVars, queryVars, walletOpVars, file, default_amount_sol, returned, last_recipient_warnings>>

\* The user writes one more line to the recipient file.
WriteLine(line) ==
    /\ pc = "idle"
    /\ file_exists
    /\ Len(file) < MaxLines
    /\ file' = Append(file, line)
    /\ UNCHANGED file_exists
    /\ UNCHANGED <<poolVars, cfgVars, perfVars, ctlVars, obsVars, now, awaitVars, payVars, airLoopVars,
                   poolArgVars, threadVars, guiVars, queryVars, walletOpVars, default_amount_sol, returned, last_recipient_warnings>>

\* The user removes the recipient file.
DeleteFile ==
    /\ pc = "idle"
    /\ file_exists
    /\ file_exists' = FALSE
    /\ file' = <<>>
    /\ UNCHANGED <<poolVars, cfgVars, perfVars, ctlVars, obsVars, now, awaitVars, payVars, airLoopVars,
                   poolArgVars, threadVars, guiVars, queryVars, walletOpVars, default_amount_sol, returned, last_recipient_warnings>>

\* read_recipients_from_file(path, default_amount_sol) on the file as it is.
read_recipients_from_file(default) ==
    LET lines == file
        parsed == ParseLines(lines, 1, default, <<>>, <<>>)
        merged == Aggregate(parsed.recipients_raw, <<>>, <<>>)
        warnings == parsed.warnings \o DuplicateWarnings(merged.duplicates_counter)
        result == merged.aggregated
    IN /\ StartOp("read")
       /\ pc' = "done"
       /\ UNCHANGED <<file_exists, file>>
       /\ default_amount_sol' = default
       /\ IF ~file_exists
          THEN /\ outcome' = "RecipientParseError"
               /\ raised' = Raise("FileNotFound", NoError, None, <<>>)
               /\ returned' = <<>>
               /\ UNCHANGED last_recipient_warnings
          ELSE IF parsed.failed
          THEN /\ outcome' = "ValueError"
               /\ raised' = Raise("ValueError", NoError, None, <<>>)
               /\ returned' = <<>>
               /\ UNCHANGED last_recipient_warnings
          ELSE /\ last_recipient_warnings' = warnings
               /\ IF result = <<>>
                  THEN /\ outcome' = "RecipientParseError"
                       /\ raised' = Raise(IF warnings # <<>> THEN "NoValidRecipients" ELSE "EmptyFile",
                                          NoError, None, <<>>)
                       /\ returned' = <<>>
                  ELSE /\ outcome' = "ok"
                       /\ raised' = NoRaise
                       /\ returned' = result
       /\ UNCHANGED <<poolVars, cfgVars, perfVars, awaitVars, payVars, airLoopVars, poolArgVars, threadVars, guiVars, queryVars, walletOpVars>>

\* -------------------------------------------------- send_mass_payments
\* The recipients a caller may pass, and the lists made of them.
RecipientPool == { Recipient(<<"A">>, 1), Recipient(<<"B">>, 2) }
RecipientLists == SeqsUpTo(RecipientPool, MaxRecipients)

\* _await_confirmation's default timeout_seconds (60.0, line 446), which
\* send_mass_payments does not override, in poll sleeps.
AwaitDefaultTimeout == 2

\* Line 304: max_per_transaction or self.default_max_recipients_per_tx.
BatchSize(arg) == IF IsNone(arg) \/ Val(arg) = 0 THEN default_max_recipients_per_tx ELSE Val(arg)

\* Mutation of Chunk: the slice runs one item too far.
Chunk_OneTooFar(items, index, size) == SubSeq(items, index + 1, Min(index + size + 1, Len(items)))

\* _chunk, line 485: items[index : index + size].
Chunk(items, index, size) == SubSeq(items, index + 1, Min(index + size, Len(items)))

Instruction(program, to, value) == [program |-> program, to |-> to, value |-> value]

\* Lines 321-329: one transfer per recipient of the chunk.
Transfers(chunk) ==
    [i \in 1..Len(chunk) |-> Instruction("transfer", chunk[i].address, chunk[i].lamports)]

\* Lines 310-329: the instructions of one chunk.
BuildInstructions(chunk) ==
    LET limit_value == IF ~IsNone(compute_unit_limit) THEN compute_unit_limit
                       ELSE default_compute_unit_limit
        price_value == IF ~IsNone(compute_unit_price) THEN compute_unit_price
                       ELSE default_compute_unit_price
    IN (IF ~IsNone(limit_value) THEN <<Instruction("set_compute_unit_limit", <<>>, Val(limit_value))>> ELSE <<>>)
       \o (IF ~IsNone(price_value) THEN <<Instruction("set_compute_unit_price", <<>>, Val(price_value))>> ELSE <<>>)
       \o Transfers(chunk)

\* Mutation of SignedTransaction: every chunk is signed against the first blockhash.
SignedTransaction_FirstBlockhash(ix, blockhash) == [bh |-> 1, ix |-> ix]

\* Lines 334-339: the signed transaction; its signature is fixed by its content.
SignedTransaction(ix, blockhash) == [bh |-> blockhash, ix |-> ix]

\* The ledger keeps one copy of a transaction however often it is submitted.
Receive(txs, t) == IF \E i \in 1..Len(txs) : txs[i] = t THEN txs ELSE Append(txs, t)

\* sum_lamports, lines 487-488.
RECURSIVE sum_lamports(_)
sum_lamports(list) == IF list = <<>> THEN 0 ELSE Head(list).lamports + sum_lamports(Tail(list))

\* Mutation of require_wallet_fails: the test is dropped.
require_wallet_fails_Never == FALSE

\* _require_wallet, line 420: no wallet attribute, or it is None.
require_wallet_fails == ~wallet

\* load_wallet_from_file (lines 160-180) on a readable secret of 32 or 64 bytes.
LoadWallet ==
    /\ pc = "idle"
    /\ ~wallet
    /\ wallet' = TRUE
    /\ UNCHANGED <<poolVars, cfgVars, perfVars, ctlVars, obsVars, now, awaitVars, parseVars, poolArgVars, threadVars, guiVars, queryVars, walletOpVars,
                   default_max_recipients_per_tx, default_compute_unit_limit,
                   default_compute_unit_price, payArgVars, payLoopVars, airLoopVars, payTxVars>>

\* send_mass_payments, lines 304-308.
send_mass_payments(recips, max_per_tx, limit, price) ==
    /\ StartOp("pay")
    /\ recipients' = recips
    /\ max_per_transaction' = max_per_tx
    /\ compute_unit_limit' = limit
    /\ compute_unit_price' = price
    /\ batch_size' = BatchSize(max_per_tx)
    /\ chunk_index' = 0
    /\ signatures' = <<>>
    /\ IF BatchSize(max_per_tx) < 1
       THEN /\ pc' = "done"
            /\ outcome' = "ValueError"
            /\ raised' = Raise("BadBatchSize", NoError, None, <<>>)
       ELSE IF require_wallet_fails
       THEN /\ pc' = "done"
            /\ outcome' = "WalletNotLoadedError"
            /\ raised' = Raise("WalletNotLoaded", NoError, None, <<>>)
       ELSE /\ pc' = "loop"
            /\ UNCHANGED <<outcome, raised>>
    /\ UNCHANGED <<poolVars, cfgVars, perfVars, awaitVars, parseVars, poolArgVars, threadVars, guiVars, queryVars, walletOpVars, payCfgVars,
                   confirmed, payTxVars, airLoopVars>>

\* Lines 309-329 and 349: the next chunk of _chunk, or the return.
PayLoop ==
    /\ op = "pay" /\ pc = "loop"
    /\ IF chunk_index >= Len(recipients)
       THEN /\ pc' = "done"
            /\ outcome' = "ok"
            /\ UNCHANGED <<instructions, perfVars>>
       ELSE /\ pc' = "blockhash"
            /\ instructions' = BuildInstructions(Chunk(recipients, chunk_index, batch_size))
            /\ PerformEnter
            /\ UNCHANGED outcome
    /\ AwaitReset
    /\ now' = 0
    /\ UNCHANGED <<poolVars, cfgVars, op, raised, obsVars, parseVars, poolArgVars, threadVars, guiVars, queryVars, walletOpVars,
                   payCfgVars, payArgVars, payLoopVars, airLoopVars, tx, ledger, blockhashes>>

\* Lines 330-339: get_latest_blockhash returns; the transaction is signed.
PayBlockhashOk ==
    /\ op = "pay" /\ pc = "blockhash"
    /\ attempts < max_attempts
    /\ TransportCall("get_latest_blockhash")
    /\ blockhashes' = blockhashes + 1
    /\ tx' = SignedTransaction(instructions, blockhashes + 1)
    /\ pc' = "send"
    /\ PerformEnter
    /\ call_error' = NoError
    /\ UNCHANGED <<poolVars, cfgVars, op, outcome, raised, slept, start_index, now,
                   awaitVars, parseVars, poolArgVars, threadVars, guiVars, queryVars, walletOpVars, payCfgVars, payArgVars, payLoopVars, airLoopVars, instructions, ledger>>

\* The raise of _perform out of send_mass_payments.
PayFail(exc) ==
    /\ pc' = "done"
    /\ outcome' = "RuntimeError"
    /\ raised' = exc

\* get_latest_blockhash raises exc.
PayBlockhashFail(exc) ==
    /\ op = "pay" /\ pc = "blockhash"
    /\ attempts < max_attempts
    /\ TransportCall("get_latest_blockhash")
    /\ call_error' = exc
    /\ PerformExcept(exc)
    /\ IF attempts + 1 < max_attempts
       THEN UNCHANGED <<pc, outcome, raised>>
       ELSE PayFail(RetryExhausted(last_error'))
    /\ UNCHANGED <<cfgVars, op, start_index, awaitVars, parseVars, poolArgVars, threadVars, guiVars, queryVars, walletOpVars, payVars, airLoopVars>>

\* Lines 340-347: send_transaction returns the signature; the wait begins.
PaySendOk ==
    /\ op = "pay" /\ pc = "send"
    /\ attempts < max_attempts
    /\ TransportCall("send_transaction")
    /\ ledger' = Receive(ledger, tx)
    /\ AwaitEnter("pay", tx, now, AwaitDefaultTimeout, "confirmed")
    /\ call_error' = NoError
    /\ UNCHANGED <<poolVars, cfgVars, op, slept, start_index, now, parseVars, poolArgVars, threadVars, guiVars, queryVars, walletOpVars,
                   payCfgVars, payArgVars, instructions, tx, blockhashes>>

\* Mutation of PaySendFail: a retry signs the instructions again, against a
\* newer blockhash.
PaySendFail_ResignsOnRetry(exc, landed) ==
    /\ op = "pay" /\ pc = "send"
    /\ attempts < max_attempts
    /\ TransportCall("send_transaction")
    /\ call_error' = exc
    /\ ledger' = IF landed THEN Receive(ledger, tx) ELSE ledger
    /\ PerformExcept(exc)
    /\ IF attempts + 1 < max_attempts
       THEN /\ tx' = SignedTransaction(instructions, blockhashes + 1)
            /\ blockhashes' = blockhashes + 1
            /\ UNCHANGED <<pc, outcome, raised>>
       ELSE /\ PayFail(RetryExhausted(last_error'))
            /\ UNCHANGED <<tx, blockhashes>>
    /\ UNCHANGED <<cfgVars, op, start_index, awaitVars, parseVars, poolArgVars, threadVars, guiVars, queryVars, walletOpVars, payCfgVars, payArgVars,
                   payLoopVars, airLoopVars, instructions>>

\* send_transaction raises exc; the transaction may have reached the ledger
\* all the same (a lost response).
PaySendFail(exc, landed) ==
    /\ op = "pay" /\ pc = "send"
    /\ attempts < max_attempts
    /\ TransportCall("send_transaction")
    /\ call_error' = exc
    /\ ledger' = IF landed THEN Receive(ledger, tx) ELSE ledger
    /\ PerformExcept(exc)
    /\ IF attempts + 1 < max_attempts
       THEN UNCHANGED <<pc, outcome, raised>>
       ELSE PayFail(RetryExhausted(last_error'))
    /\ UNCHANGED <<cfgVars, op, start_index, awaitVars, parseVars, poolArgVars, threadVars, guiVars, queryVars, walletOpVars, payCfgVars, payArgVars,
                   payLoopVars, airLoopVars, instructions, tx, blockhashes>>

\* ------------------------------------------------------ request_airdrop
\* The amounts and chunk limits a caller may pass, as Decimals (tenths of a
\* lamport): whole lamports, lamports and a half, zero and a negative amount.
AirdropAmounts == { -10, 0, 5, 10, 15, 20, 25, 30 }
AirdropLimits == { -10, 0, 10, 20 }
MaxAirdropAttempts == 2   \* largest max_attempts argument tried

\* Mutation of ChunkAmount: every chunk is a full chunk_limit.
ChunkAmount_AlwaysLimit(left, limit) == limit

\* Line 210: the next chunk of the amount that is left.
ChunkAmount(left, limit) == IF left <= limit THEN left ELSE limit

\* The signature the faucet returns for its k-th airdrop.
AirdropSignature(k, amount) == [bh |-> k, ix |-> <<Instruction("airdrop", <<>>, amount)>>]

\* Mutation of request_airdrop: the tests of lines 202 and 205 are dropped.
request_airdrop_Unchecked(amount, max_per_request, max_attempts_arg, pause) ==
    /\ StartOp("airdrop")
    /\ decimal_amount' = amount
    /\ chunk_limit' = max_per_request
    /\ airdrop_max_attempts' = max_attempts_arg
    /\ pause_seconds' = pause
    /\ pauses' = 0
    /\ chunk_amount' = 0 /\ chunk_lamports' = 0
    /\ attempt' = 0 /\ request_error' = NoError /\ retry_sleeps' = <<>> /\ request_calls' = 0
    /\ airdrops' = 0 /\ airdrop_signatures' = <<>> /\ chunk_amounts' = <<>>
    /\ IF require_wallet_fails
       THEN /\ pc' = "done"
            /\ outcome' = "WalletNotLoadedError"
            /\ raised' = Raise("WalletNotLoaded", NoError, None, <<>>)
            /\ remaining' = 0
       ELSE /\ pc' = "air_loop"
            /\ remaining' = amount
            /\ UNCHANGED <<outcome, raised>>
    /\ UNCHANGED <<poolVars, cfgVars, perfVars, awaitVars, parseVars, poolArgVars, threadVars, guiVars, queryVars, payVars, balVars>>

\* request_airdrop, lines 200-208.
request_airdrop(amount, max_per_request, max_attempts_arg, pause) ==
    /\ StartOp("airdrop")
    /\ decimal_amount' = amount
    /\ chunk_limit' = max_per_request
    /\ airdrop_max_attempts' = max_attempts_arg
    /\ pause_seconds' = pause
    /\ pauses' = 0
    /\ chunk_amount' = 0 /\ chunk_lamports' = 0
    /\ attempt' = 0 /\ request_error' = NoError /\ retry_sleeps' = <<>> /\ request_calls' = 0
    /\ airdrops' = 0 /\ airdrop_signatures' = <<>> /\ chunk_amounts' = <<>>
    /\ IF require_wallet_fails
       THEN /\ pc' = "done"
            /\ outcome' = "WalletNotLoadedError"
            /\ raised' = Raise("WalletNotLoaded", NoError, None, <<>>)
            /\ remaining' = 0
       ELSE IF amount <= 0
       THEN /\ pc' = "done"
            /\ outcome' = "ValueError"
            /\ raised' = Raise("BadAmount", NoError, None, <<>>)
            /\ remaining' = 0
       ELSE IF max_per_request <= 0
       THEN /\ pc' = "done"
            /\ outcome' = "ValueError"
            /\ raised' = Raise("BadChunkLimit", NoError, None, <<>>)
            /\ remaining' = 0
       ELSE /\ pc' = "air_loop"
            /\ remaining' = amount
            /\ UNCHANGED <<outcome, raised>>
    /\ UNCHANGED <<poolVars, cfgVars, perfVars, awaitVars, parseVars, poolArgVars, threadVars, guiVars, queryVars, payVars, balVars>>

\* Lines 209-211 and 224: the next chunk and its lamports, or the return.
AirLoop ==
    /\ op = "airdrop" /\ pc = "air_loop"
    /\ AwaitReset
    /\ now' = 0
    /\ attempt' = 0 /\ request_error' = NoError /\ retry_sleeps' = <<>> /\ request_calls' = 0
    /\ IF remaining > 0
       THEN LET amount == ChunkAmount(remaining, chunk_limit)
                converted == sol_to_lamports(amount)
            IN /\ chunk_amount' = amount
               /\ IF IsNone(converted)
                  THEN /\ chunk_lamports' = 0
                       /\ pc' = "done"
                       /\ outcome' = "ValueError"
                       /\ raised' = Raise("ZeroLamports", NoError, None, <<>>)
                  ELSE /\ chunk_lamports' = Val(converted)
                       /\ pc' = "air_attempt"
                       /\ UNCHANGED <<outcome, raised>>
       ELSE /\ pc' = "done"
            /\ outcome' = "ok"
            /\ UNCHANGED <<raised, chunk_amount, chunk_lamports>>
    /\ UNCHANGED <<poolVars, cfgVars, perfVars, op, obsVars, parseVars, poolArgVars, threadVars, guiVars, queryVars, payVars,
                   airArgVars, airLoopVars, airdrops, airdrop_signatures, chunk_amounts, balVars>>

\* _request_airdrop_lamports, lines 236-239 and 248: the head of its loop.
AirAttempt ==
    /\ op = "airdrop" /\ pc = "air_attempt"
    /\ IF attempt < airdrop_max_attempts
       THEN /\ attempt' = attempt + 1
            /\ pc' = "air_request"
            /\ PerformEnter
            /\ UNCHANGED <<outcome, raised>>
       ELSE /\ pc' = "done"
            /\ outcome' = "RuntimeError"
            /\ raised' = Raise("AirdropFailed", request_error, None, <<>>)
            /\ UNCHANGED <<attempt, perfVars>>
    /\ UNCHANGED <<poolVars, cfgVars, op, obsVars, now, awaitVars, parseVars, poolArgVars, threadVars, guiVars, queryVars, payVars,
                   airArgVars, airLoopVars, chunk_amount, chunk_lamports, request_error,
                   retry_sleeps, request_calls, airdrops, airdrop_signatures, chunk_amounts,
                   balVars>>

\* Lines 239-247 and 219-220: the faucet answers; the signature is kept and
\* the wait begins.
AirRequestOk ==
    /\ op = "airdrop" /\ pc = "air_request"
    /\ attempts < max_attempts
    /\ TransportCall("request_airdrop")
    /\ request_calls' = request_calls + 1
    /\ airdrops' = airdrops + 1
    /\ airdrop_signatures' = Append(airdrop_signatures, AirdropSignature(airdrops + 1, chunk_lamports))
    /\ chunk_amounts' = Append(chunk_amounts, chunk_amount)
    /\ AwaitEnter("airdrop", AirdropSignature(airdrops + 1, chunk_lamports), now,
                  AwaitDefaultTimeout, "confirmed")
    /\ call_error' = NoError
    /\ UNCHANGED <<poolVars, cfgVars, op, slept, start_index, now, parseVars, poolArgVars, threadVars, guiVars, queryVars,
                   payCfgVars, payArgVars, payTxVars, airArgVars, chunk_amount, chunk_lamports,
                   attempt, request_error, retry_sleeps, balVars>>

\* Mutation of AirRequestFail: the pause between the attempts of one chunk does
\* not grow with the attempt.
AirRequestFail_FlatPause(exc) ==
    /\ op = "airdrop" /\ pc = "air_request"
    /\ attempts < max_attempts
    /\ TransportCall("request_airdrop")
    /\ request_calls' = request_calls + 1
    /\ call_error' = exc
    /\ PerformExcept(exc)
    /\ IF attempts + 1 < max_attempts
       THEN UNCHANGED <<pc, request_error, retry_sleeps>>
       ELSE /\ pc' = "air_attempt"
            /\ request_error' = last_error'
            /\ retry_sleeps' = Append(retry_sleeps, pause_seconds)
    /\ UNCHANGED <<cfgVars, op, outcome, raised, start_index, awaitVars, parseVars, poolArgVars, threadVars, guiVars, queryVars,
                   payVars, airArgVars, airLoopVars, chunk_amount, chunk_lamports, attempt,
                   airdrops, airdrop_signatures, chunk_amounts, balVars>>

\* The airdrop request raises exc; once _perform gives up, the except branch of
\* lines 242-245 keeps the error and sleeps pause_seconds * attempt.
AirRequestFail(exc) ==
    /\ op = "airdrop" /\ pc = "air_request"
    /\ attempts < max_attempts
    /\ TransportCall("request_airdrop")
    /\ request_calls' = request_calls + 1
    /\ call_error' = exc
    /\ PerformExcept(exc)
    /\ IF attempts + 1 < max_attempts
       THEN UNCHANGED <<pc, request_error, retry_sleeps>>
       ELSE /\ pc' = "air_attempt"
            /\ request_error' = last_error'
            /\ retry_sleeps' = Append(retry_sleeps, pause_seconds * attempt)
    /\ UNCHANGED <<cfgVars, op, outcome, raised, start_index, awaitVars, parseVars, poolArgVars, threadVars, guiVars, queryVars,
                   payVars, airArgVars, airLoopVars, chunk_amount, chunk_lamports, attempt,
                   airdrops, airdrop_signatures, chunk_amounts, balVars>>

\* ------------------------------------------------------ get_balance_sol
\* The lamports get_balance may report.
BalanceValues == { 0, 1, LAMPORTS_PER_SOL }

\* get_balance_sol, lines 187-188.
get_balance_sol ==
    /\ StartOp("balance")
    /\ balance_sol' = None
    /\ IF require_wallet_fails
       THEN /\ pc' = "done"
            /\ outcome' = "WalletNotLoadedError"
            /\ raised' = Raise("WalletNotLoaded", NoError, None, <<>>)
            /\ UNCHANGED perfVars
       ELSE /\ pc' = "balance"
            /\ PerformEnter
            /\ UNCHANGED <<outcome, raised>>
    /\ UNCHANGED <<poolVars, cfgVars, awaitVars, parseVars, poolArgVars, threadVars, guiVars, queryVars, payVars, airLoopVars,
                   airArgVars, airReqVars>>

\* Lines 188-190: get_balance returns the lamports.
BalanceOk(value) ==
    /\ op = "balance" /\ pc = "balance"
    /\ attempts < max_attempts
    /\ TransportCall("get_balance")
    /\ call_error' = NoError
    /\ balance_sol' = Some(value * (DecimalScale \div LAMPORTS_PER_SOL))
    /\ pc' = "done"
    /\ outcome' = "ok"
    /\ UNCHANGED <<poolVars, cfgVars, perfVars, op, raised, slept, start_index, now, awaitVars,
                   parseVars, poolArgVars, threadVars, guiVars, queryVars, payVars, airLoopVars, airArgVars, airReqVars>>

\* get_balance raises exc.
BalanceFail(exc) ==
    /\ op = "balance" /\ pc = "balance"
    /\ attempts < max_attempts
    /\ TransportCall("get_balance")
    /\ call_error' = exc
    /\ PerformExcept(exc)
    /\ IF attempts + 1 < max_attempts
       THEN UNCHANGED <<pc, outcome, raised>>
       ELSE /\ pc' = "done"
            /\ outcome' = "RuntimeError"
            /\ raised' = RetryExhausted(last_error')
    /\ UNCHANGED <<cfgVars, op, start_index, awaitVars, parseVars, poolArgVars, threadVars, guiVars, queryVars, payVars,
                   airLoopVars, walletOpVars>>

\* ------------------------------------------------------- fetch_balances
MaxAddresses == 3   \* longest addresses argument tried
MaxPage == 2        \* largest accounts_query_chunk argument tried

\* The strings a caller may pass as addresses: those Pubkey.from_string
\* accepts, and one it rejects.
PubkeyStrings == ValidAddresses \cup { <<"C">> }
AddressStrings == PubkeyStrings \cup { <<"bad">> }
AddressLists == SeqsUpTo(AddressStrings, MaxAddresses)

\* What get_multiple_accounts answers for one pubkey: no account, or the
\* account's lamports.
AccountValues == { None, Some(0), Some(LAMPORTS_PER_SOL) }

\* A dict, as the list of its items in insertion order.
DictHas(d, key) == \E i \in 1..Len(d) : d[i].address = key
DictGet(d, key, default) ==
    IF DictHas(d, key) THEN d[CHOOSE i \in 1..Len(d) : d[i].address = key].balance ELSE default
DictSet(d, key, value) ==
    IF DictHas(d, key)
    THEN [i \in 1..Len(d) |-> IF d[i].address = key THEN [address |-> key, balance |-> value] ELSE d[i]]
    ELSE Append(d, [address |-> key, balance |-> value])

\* Mutation of UniqueOf: every occurrence is kept.
UniqueOf_KeepAll(list, unique) == unique \o list

\* Lines 358-365: unique, the addresses in order of first appearance.
RECURSIVE UniqueOf(_, _)
UniqueOf(list, unique) ==
    IF list = <<>> THEN unique
    ELSE IF \E i \in 1..Len(unique) : unique[i] = Head(list)
         THEN UniqueOf(Tail(list), unique)
         ELSE UniqueOf(Tail(list), Append(unique, Head(list)))

\* Lines 373-376: the balance in SOL of one answered account.
AccountBalance(account) ==
    IF IsNone(account) THEN 0 ELSE Val(account) * (DecimalScale \div LAMPORTS_PER_SOL)

\* Lines 372-376: the loop over zip(chunk, response.value).
RECURSIVE StoreChunk(_, _, _, _)
StoreChunk(d, chunk, value, i) ==
    IF i > Min(Len(chunk), Len(value)) THEN d
    ELSE StoreChunk(DictSet(d, chunk[i], AccountBalance(value[i])), chunk, value, i + 1)

\* Mutation of FetchResult: addresses without funds are left out.
RECURSIVE FetchResult_FundedOnly(_, _, _)
FetchResult_FundedOnly(order, d, result) ==
    IF order = <<>> THEN result
    ELSE FetchResult_FundedOnly(Tail(order), d,
            IF DictGet(d, Head(order), 0) > 0
            THEN DictSet(result, Head(order), DictGet(d, Head(order), 0))
            ELSE result)

\* Line 377: the dict comprehension over order.
RECURSIVE FetchResult(_, _, _)
FetchResult(order, d, result) ==
    IF order = <<>> THEN result
    ELSE FetchResult(Tail(order), d, DictSet(result, Head(order), DictGet(d, Head(order), 0)))

\* fetch_balances, lines 356-366.
fetch_balances(addresses_arg) ==
    /\ StartOp("fetch")
    /\ fetch_addresses' = addresses_arg
    /\ fetch_index' = 0
    /\ balances_unique' = <<>>
    /\ queries' = <<>>
    /\ IF addresses_arg = <<>>
       THEN /\ unique_addresses' = <<>>
            /\ balances' = Some(<<>>)
            /\ pc' = "done"
            /\ outcome' = "ok"
            /\ UNCHANGED raised
       ELSE /\ unique_addresses' = UniqueOf(addresses_arg, <<>>)
            /\ balances' = None
            /\ pc' = "fetch_loop"
            /\ UNCHANGED <<outcome, raised>>
    /\ UNCHANGED <<poolVars, cfgVars, perfVars, awaitVars, parseVars, poolArgVars, threadVars, guiVars, payVars,
                   walletOpVars, airLoopVars, accounts_query_chunk, pingVars>>

\* Lines 367-368 and 377: the next chunk of _chunk and its pubkeys, or the return.
FetchLoop ==
    /\ op = "fetch" /\ pc = "fetch_loop"
    /\ IF fetch_index < Len(unique_addresses)
       THEN LET chunk == Chunk(unique_addresses, fetch_index, accounts_query_chunk)
            IN IF \E i \in 1..Len(chunk) : chunk[i] \notin PubkeyStrings
               THEN /\ pc' = "done"
                    /\ outcome' = "ValueError"
                    /\ raised' = Raise("InvalidAddress", NoError, None, <<>>)
                    /\ UNCHANGED <<perfVars, balances>>
               ELSE /\ pc' = "fetch_query"
                    /\ PerformEnter
                    /\ UNCHANGED <<outcome, raised, balances>>
       ELSE /\ pc' = "done"
            /\ outcome' = "ok"
            /\ balances' = Some(FetchResult(fetch_addresses, balances_unique, <<>>))
            /\ UNCHANGED <<raised, perfVars>>
    /\ UNCHANGED <<poolVars, cfgVars, op, obsVars, now, awaitVars, parseVars, poolArgVars, threadVars, guiVars, payVars,
                   walletOpVars, airLoopVars, accounts_query_chunk, pingVars,
                   fetch_addresses, unique_addresses, fetch_index, balances_unique, queries>>

\* Lines 369-376: get_multiple_accounts answers with one value per pubkey.
FetchQueryOk(value) ==
    /\ op = "fetch" /\ pc = "fetch_query"
    /\ attempts < max_attempts
    /\ TransportCall("get_multiple_accounts")
    /\ call_error' = NoError
    /\ LET chunk == Chunk(unique_addresses, fetch_index, accounts_query_chunk)
       IN /\ Len(value) = Len(chunk)
          /\ queries' = Append(queries, [pubkeys |-> chunk, value |-> value])
          /\ balances_unique' = StoreChunk(balances_unique, chunk, value, 1)
    /\ fetch_index' = NextChunkIndex(fetch_index, accounts_query_chunk)
    /\ pc' = "fetch_loop"
    /\ UNCHANGED <<poolVars, cfgVars, perfVars, op, outcome, raised, slept, start_index, now,
                   awaitVars, parseVars, poolArgVars, threadVars, guiVars, payVars, walletOpVars, airLoopVars,
                   accounts_query_chunk, pingVars, fetch_addresses, unique_addresses, balances>>

\* get_multiple_accounts raises exc.
FetchQueryFail(exc) ==
    /\ op = "fetch" /\ pc = "fetch_query"
    /\ attempts < max_attempts
    /\ TransportCall("get_multiple_accounts")
    /\ call_error' = exc
    /\ PerformExcept(exc)
    /\ IF attempts + 1 < max_attempts
       THEN UNCHANGED <<pc, outcome, raised>>
       ELSE /\ pc' = "done"
            /\ outcome' = "RuntimeError"
            /\ raised' = RetryExhausted(last_error')
    /\ UNCHANGED <<cfgVars, op, start_index, appVars>>

\* ----------------------------------------------------------------- ping
MaxPingTimeout == 2   \* largest timeout_seconds argument tried

\* The time one is_connected call that returns may take.
CallDurations == { 0, 1 }

\* Mutation of PingVerdict: an elapsed time equal to the limit is too long.
PingVerdict_AtLimit(connected, time, limit) ==
    IF ~connected THEN "RuntimeError"
    ELSE IF time >= limit THEN "TimeoutError"
    ELSE "ok"

\* ping, lines 152-158.
PingVerdict(connected, time, limit) ==
    IF ~connected THEN "RuntimeError"
    ELSE IF time > limit THEN "TimeoutError"
    ELSE "ok"

\* ping, lines 149-150.
ping(timeout_seconds_arg) ==
    /\ StartOp("ping")
    /\ ping_timeout' = timeout_seconds_arg
    /\ is_ok' = None
    /\ elapsed' = 0
    /\ pc' = "ping"
    /\ PerformEnter
    /\ UNCHANGED <<outcome, raised>>
    /\ UNCHANGED <<poolVars, cfgVars, awaitVars, parseVars, poolArgVars, threadVars, guiVars, payVars,
                   walletOpVars, airLoopVars, accounts_query_chunk, fetchVars>>

\* Lines 150-158: is_connected returns after d ticks.
PingReturn(connected, d) ==
    /\ op = "ping" /\ pc = "ping"
    /\ attempts < max_attempts
    /\ TransportCall("is_connected")
    /\ call_error' = NoError
    /\ now' = now + d
    /\ is_ok' = Some(connected)
    /\ elapsed' = now + d
    /\ pc' = "done"
    /\ outcome' = PingVerdict(connected, now + d, ping_timeout)
    /\ raised' = CASE PingVerdict(connected, now + d, ping_timeout) = "RuntimeError"
                        -> Raise("Unhealthy", NoError, None, <<>>)
                   [] PingVerdict(connected, now + d, ping_timeout) = "TimeoutError"
                        -> Raise("PingTimeout", NoError, None, <<>>)
                   [] OTHER -> NoRaise
    /\ UNCHANGED <<poolVars, cfgVars, perfVars, op, slept, start_index,
                   awaitVars, parseVars, poolArgVars, threadVars, guiVars, payVars, walletOpVars, airLoopVars,
                   accounts_query_chunk, fetchVars, ping_timeout>>

\* is_connected raises exc.
PingFail(exc) ==
    /\ op = "ping" /\ pc = "ping"
    /\ attempts < max_attempts
    /\ TransportCall("is_connected")
    /\ call_error' = exc
    /\ PerformExcept(exc)
    /\ IF attempts + 1 < max_attempts
       THEN UNCHANGED <<pc, outcome, raised>>
       ELSE /\ pc' = "done"
            /\ outcome' = "RuntimeError"
            /\ raised' = RetryExhausted(last_error')
    /\ UNCHANGED <<cfgVars, op, start_index, appVars>>

\* ------------------------------------------------- the window (solana_gui.py)
MaxWorkers == 2   \* worker threads alive at a time
MaxPending == 3   \* update callbacks waiting in the event loop at a time

\* The tasks _run_in_thread is given, by the manager method they call.
Tasks == { "send_mass_payments", "ping", "request_airdrop" }
FreeWorker == [task |-> "none", at |-> "free"]

\* __init__ of the window, lines 47-49 and 71-76: no recipients, every button
\* enabled, no thread started.
InitGui ==
    /\ button_state = "normal"
    /\ after_queue = <<>>
    /\ workers = [t \in 1..MaxWorkers |-> FreeWorker]
    /\ pool_dialog = FALSE
    /\ confirming = FALSE
    /\ gui_recipients = FALSE
    /\ overlaps = {}

\* The manager is inside the send_mass_payments of some worker thread.
PaymentInFlight ==
    \E t \in 1..MaxWorkers : workers[t] = [task |-> "send_mass_payments", at |-> "run"]

\* What a manager call that starts now adds to the observation.
OverlapsAfter(name) == IF PaymentInFlight THEN overlaps \cup {name} ELSE overlaps

\* The user can reach the main window: no modal box or dialog holds the grab.
MainWindowActive == ~pool_dialog /\ ~confirming

\* A click on one of action_buttons takes effect only while they are enabled.
ButtonClickable == MainWindowActive /\ button_state = "normal"

\* The fields of the manager, which the steps of the window's own model leave alone.
managerVars == <<poolVars, cfgVars, perfVars, ctlVars, obsVars, now, awaitVars, parseVars,
                 poolArgVars, threadVars, walletOpVars, airLoopVars, queryVars>>

\* _run_in_thread, line 649: threading.Thread(...).start() asks nothing.
MayStartThread == \E t \in 1..MaxWorkers : workers[t].at = "free"

\* _run_in_thread, line 649: the thread is started; its wrapper has not run yet.
StartThread(task) ==
    /\ MayStartThread
    /\ LET t == CHOOSE t \in 1..MaxWorkers :
                   workers[t].at = "free" /\ \A k \in 1..(t - 1) : workers[k].at # "free"
       IN workers' = [workers EXCEPT ![t] = [task |-> task, at |-> "start"]]

\* _select_wallet_file, lines 380-398, with a key file that loads.
GuiLoadWallet ==
    /\ ButtonClickable
    /\ wallet' = TRUE
    /\ UNCHANGED <<managerVars, default_max_recipients_per_tx, default_compute_unit_limit,
                   default_compute_unit_price, payArgVars, payLoopVars, payTxVars, guiVars>>

\* _select_recipient_file and _load_recipients with a file that loads.
GuiLoadRecipients ==
    /\ ButtonClickable
    /\ gui_recipients' = TRUE
    /\ UNCHANGED <<managerVars, payVars, button_state, after_queue, workers, pool_dialog,
                   confirming, overlaps>>

\* _send_to_recipients, lines 600-616: the send button, up to the confirmation box.
ClickSend ==
    /\ ButtonClickable
    /\ gui_recipients /\ wallet
    /\ confirming' = TRUE
    /\ UNCHANGED <<managerVars, payVars, button_state, after_queue, workers, pool_dialog,
                   gui_recipients, overlaps>>

\* Lines 616-620: the user answers the confirmation box.
ConfirmSend(yes) ==
    /\ confirming
    /\ confirming' = FALSE
    /\ IF yes THEN StartThread("send_mass_payments") ELSE UNCHANGED workers
    /\ UNCHANGED <<managerVars, payVars, button_state, after_queue, pool_dialog,
                   gui_recipients, overlaps>>

\* _ping_endpoint (line 372) and _request_airdrop (line 429).
ClickTask(task) ==
    /\ ButtonClickable
    /\ StartThread(task)
    /\ UNCHANGED <<managerVars, payVars, button_state, after_queue, pool_dialog, confirming,
                   gui_recipients, overlaps>>

\* wrapper, lines 644-646: _set_busy(True) posts its update, and the target
\* enters its manager method.
WorkerBegin(t) ==
    /\ workers[t].at = "start"
    /\ Len(after_queue) < MaxPending
    /\ after_queue' = Append(after_queue, TRUE)
    /\ workers' = [workers EXCEPT ![t].at = "run"]
    /\ overlaps' = OverlapsAfter(workers[t].task)
    /\ UNCHANGED <<managerVars, payVars, button_state, pool_dialog, confirming, gui_recipients>>

\* wrapper, lines 647-648: the target is over and _set_busy(False) posts its update.
WorkerEnd(t) ==
    /\ workers[t].at = "run"
    /\ Len(after_queue) < MaxPending
    /\ after_queue' = Append(after_queue, FALSE)
    /\ workers' = [workers EXCEPT ![t] = FreeWorker]
    /\ UNCHANGED <<managerVars, payVars, button_state, pool_dialog, confirming, gui_recipients,
                   overlaps>>

\* _set_busy.update, lines 655-660, run by the event loop (also while a modal
\* box is open).
RunUpdate ==
    /\ after_queue # <<>>
    /\ button_state' = IF Head(after_queue) THEN "disabled" ELSE "normal"
    /\ after_queue' = Tail(after_queue)
    /\ UNCHANGED <<managerVars, payVars, workers, pool_dialog, confirming, gui_recipients, overlaps>>

\* _apply_endpoint, lines 285-298, on the main thread: manager.set_endpoint.
\* Its balance refreshes run on threads of _run_background, which never touch
\* the buttons.
apply_endpoint ==
    /\ overlaps' = OverlapsAfter("set_endpoint")
    /\ UNCHANGED <<managerVars, payVars, button_state, after_queue, workers, pool_dialog,
                   confirming, gui_recipients>>

\* The connect button (line 130).
ClickConnect ==
    /\ ButtonClickable
    /\ apply_endpoint

\* _on_network_change, lines 271-276: the network selector, a Combobox that is
\* not one of action_buttons (lines 116-124).
on_network_change ==
    /\ MainWindowActive
    /\ apply_endpoint

\* _open_rpc_pool_dialog, lines 300-303: the pool button opens the dialog,
\* which takes the grab.
ClickPool ==
    /\ ButtonClickable
    /\ pool_dialog' = TRUE
    /\ UNCHANGED <<managerVars, payVars, button_state, after_queue, workers, confirming,
                   gui_recipients, overlaps>>

\* save_pool, lines 331-355: the dialog's own button, with values that are
\* accepted: manager.set_rpc_pool, then the dialog is destroyed.
save_pool ==
    /\ pool_dialog
    /\ overlaps' = OverlapsAfter("set_rpc_pool")
    /\ pool_dialog' = FALSE
    /\ UNCHANGED <<managerVars, payVars, button_state, after_queue, workers, confirming,
                   gui_recipients>>

\* The dialog's close button (line 358).
ClosePool ==
    /\ pool_dialog
    /\ pool_dialog' = FALSE
    /\ UNCHANGED <<managerVars, payVars, button_state, after_queue, workers, confirming,
                   gui_recipients, overlaps>>

\* ------------------------------------- threads on one manager, by statement
\* The single-threaded model's variables, which the statement-level steps of
\* the threads leave alone.
seqVars == <<perfVars, ctlVars, obsVars, now, awaitVars, parseVars, poolArgVars, payVars,
             walletOpVars, airLoopVars, queryVars, guiVars>>

MaxThreads == 2   \* threads of _run_background alive at a time

\* A thread that is not inside the manager, with the locals of _perform.
IdleThread ==
    [pc |-> "idle", attempts |-> 0, total_endpoints |-> 0, max_attempts |-> 0,
     next |-> 0, error |-> NoError]

\* The main thread is not inside set_rpc_pool.
NoPoolCall == [pc |-> "idle", unique |-> <<>>]

InitRace ==
    /\ bg_threads = [t \in 1..MaxThreads |-> IdleThread]
    /\ pool_call = NoPoolCall

\* The pools the window hands to set_endpoint and set_rpc_pool.
RacePools == { << <<"a">> >>, << <<"a">>, <<"b">> >> }

\* set_rpc_pool, lines 94-114, on the main thread, with endpoints that are
\* accepted and no retry arguments: unique is built, nothing is stored yet.
PoolCallBegin(endpoints) ==
    /\ pool_call.pc = "idle"
    /\ UniqueCleaned(endpoints, <<>>) # <<>>
    /\ pool_call' = [pc |-> "store_endpoints", unique |-> UniqueCleaned(endpoints, <<>>)]
    /\ UNCHANGED <<poolVars, cfgVars, seqVars, bg_threads, sendVars>>

\* Line 115: self.rpc_endpoints = unique.
PoolStoreEndpoints ==
    /\ pool_call.pc = "store_endpoints"
    /\ rpc_endpoints' = pool_call.unique
    /\ pool_call' = [pool_call EXCEPT !.pc = "store_index"]
    /\ UNCHANGED <<current_endpoint_index, endpoint, client, cfgVars, seqVars, bg_threads, sendVars>>

\* Line 116: self._current_endpoint_index = 0.
PoolStoreIndex ==
    /\ pool_call.pc = "store_index"
    /\ current_endpoint_index' = 0
    /\ pool_call' = [pool_call EXCEPT !.pc = "store_endpoint"]
    /\ UNCHANGED <<rpc_endpoints, endpoint, client, cfgVars, seqVars, bg_threads, sendVars>>

\* Line 117: self.endpoint = self.rpc_endpoints[0].
PoolStoreEndpoint ==
    /\ pool_call.pc = "store_endpoint"
    /\ endpoint' = rpc_endpoints[1]
    /\ pool_call' = [pool_call EXCEPT !.pc = "store_client"]
    /\ UNCHANGED <<rpc_endpoints, current_endpoint_index, client, cfgVars, seqVars, bg_threads, sendVars>>

\* Line 118: self.client = Client(self.endpoint, timeout=self.timeout); the
\* call returns.
PoolStoreClient ==
    /\ pool_call.pc = "store_client"
    /\ client' = NewClient(endpoint, timeout)
    /\ pool_call' = NoPoolCall
    /\ UNCHANGED <<rpc_endpoints, current_endpoint_index, endpoint, cfgVars, seqVars, bg_threads, sendVars>>

\* _run_background (solana_gui.py, 651-652) starts a thread whose target calls
\* get_balance_sol or fetch_balances; _perform, lines 121-124.
BgPerform(t) ==
    /\ bg_threads[t].pc = "idle"
    /\ bg_threads' = [bg_threads EXCEPT ![t] =
          [pc |-> "call", attempts |-> 0, total_endpoints |-> Len(rpc_endpoints),
           max_attempts |-> MaxAttempts(Len(rpc_endpoints), max_retries_per_endpoint),
           next |-> 0, error |-> NoError]]
    /\ UNCHANGED <<poolVars, cfgVars, seqVars, pool_call, sendVars>>

\* Line 125, the head of _perform's loop, for thread record th.
LoopHead(th) ==
    IF th.attempts < th.max_attempts
    THEN [th EXCEPT !.pc = "call"]
    ELSE [th EXCEPT !.pc = "done", !.error = "RetryExhausted"]

\* Lines 126-127: func(self.client) returns.
BgCallOk(t) ==
    /\ bg_threads[t].pc = "call"
    /\ bg_threads' = [bg_threads EXCEPT ![t].pc = "done"]
    /\ UNCHANGED <<poolVars, cfgVars, seqVars, pool_call, sendVars>>

\* Lines 128-133: func(self.client) raises; the attempt is counted and, on a
\* multiple of the retries, _rotate_endpoint is entered.
BgCallFail(t) ==
    LET th == bg_threads[t]
        counted == [th EXCEPT !.attempts = th.attempts + 1]
    IN /\ th.pc = "call"
       /\ bg_threads' = [bg_threads EXCEPT ![t] =
             IF ShouldRotate(th.total_endpoints, th.attempts + 1, max_retries_per_endpoint)
             THEN [counted EXCEPT !.pc = "rotate_check"]
             ELSE LoopHead(counted)]
       /\ UNCHANGED <<poolVars, cfgVars, seqVars, pool_call, sendVars>>

\* _rotate_endpoint, lines 139-140.
RotateCheck(t) ==
    /\ bg_threads[t].pc = "rotate_check"
    /\ bg_threads' = [bg_threads EXCEPT ![t] =
          IF Len(rpc_endpoints) <= 1 THEN LoopHead(bg_threads[t])
          ELSE [bg_threads[t] EXCEPT !.pc = "rotate_compute"]]
    /\ UNCHANGED <<poolVars, cfgVars, seqVars, pool_call, sendVars>>

\* Line 141, the right-hand side: (index + 1) % len(self.rpc_endpoints).
RotateCompute(t) ==
    /\ bg_threads[t].pc = "rotate_compute"
    /\ bg_threads' = [bg_threads EXCEPT ![t].pc = "rotate_store",
                                        ![t].next = (current_endpoint_index + 1) % Len(rpc_endpoints)]
    /\ UNCHANGED <<poolVars, cfgVars, seqVars, pool_call, sendVars>>

\* Line 141, the store to self._current_endpoint_index.
RotateStore(t) ==
    /\ bg_threads[t].pc = "rotate_store"
    /\ current_endpoint_index' = bg_threads[t].next
    /\ bg_threads' = [bg_threads EXCEPT ![t].pc = "rotate_endpoint"]
    /\ UNCHANGED <<rpc_endpoints, endpoint, client, cfgVars, seqVars, pool_call, sendVars>>

\* Line 142: self.endpoint = self.rpc_endpoints[self._current_endpoint_index];
\* the subscript raises IndexError past the end of the list, and the error
\* leaves _perform from its except branch.
RotateEndpoint(t) ==
    /\ bg_threads[t].pc = "rotate_endpoint"
    /\ IF current_endpoint_index < Len(rpc_endpoints)
       THEN /\ endpoint' = rpc_endpoints[current_endpoint_index + 1]
            /\ bg_threads' = [bg_threads EXCEPT ![t].pc = "rotate_client"]
       ELSE /\ bg_threads' = [bg_threads EXCEPT ![t].pc = "done", ![t].error = "IndexError"]
            /\ UNCHANGED endpoint
    /\ UNCHANGED <<rpc_endpoints, current_endpoint_index, client, cfgVars, seqVars, pool_call, sendVars>>

\* Line 143: self.client = Client(self.endpoint, timeout=self.timeout); back
\* to the loop of _perform.
RotateClient(t) ==
    /\ bg_threads[t].pc = "rotate_client"
    /\ client' = NewClient(endpoint, timeout)
    /\ bg_threads' = [bg_threads EXCEPT ![t] = LoopHead(bg_threads[t])]
    /\ UNCHANGED <<rpc_endpoints, current_endpoint_index, endpoint, cfgVars, seqVars, pool_call, sendVars>>

\* The thread's target returns and the thread ends.
BgReturn(t) ==
    /\ bg_threads[t].pc = "done"
    /\ bg_threads' = [bg_threads EXCEPT ![t] = IdleThread]
    /\ UNCHANGED <<poolVars, cfgVars, seqVars, pool_call, sendVars>>

\* ------------------------------------- the window's recipients and its sends
MaxObjects == 3   \* Recipient objects made by the loads of one behaviour
MaxSends == 1     \* send threads alive at a time in the send model

\* The contents the recipient file may have when it is read, and the default
\* amounts the entry may hold (empty, or 1 SOL).
GuiFiles ==
    { << <<"A", " ", "1">>, <<"B">> >>,
      << <<"A", ",", "2">> >>,
      << <<"B", " ", "0">> >> }
GuiDefaults == { None, Some(DecimalScale) }

\* manager.read_recipients_from_file as the window sees it: the list it
\* returns, or the RecipientParseError or ValueError it raises.
LoadOutcome(lines, default) ==
    LET parsed == ParseLines(lines, 1, default, <<>>, <<>>)
        merged == Aggregate(parsed.recipients_raw, <<>>, <<>>)
    IN IF parsed.failed \/ merged.aggregated = <<>>
       THEN [ok |-> FALSE, recipients |-> <<>>]
       ELSE [ok |-> TRUE, recipients |-> merged.aggregated]

\* No send thread in the slot.
NoJob == [at |-> "free", args |-> <<>>, asked |-> <<>>, built |-> <<>>]

\* __init__ of the window, line 47: no recipients, no send thread.
InitSend ==
    /\ heap = <<>>
    /\ shown = <<>>
    /\ send_jobs = [t \in 1..MaxSends |-> NoJob]
    /\ confirm_open = FALSE
    /\ reload_pending = FALSE
    /\ path_chosen = FALSE
    /\ load_result = "none"

\* The address and lamports of the objects of a list, as they are now.
ValuesOf(objects, ids) == [i \in 1..Len(ids) |-> objects[ids[i]]]

\* Mutation of StoreLoaded: the loaded amounts are written into the Recipient
\* objects the window already shows, where the addresses are the same.
StoreLoaded_InPlace(loaded) ==
    IF Len(loaded) = Len(shown) /\ \A i \in 1..Len(shown) : heap[shown[i]].address = loaded[i].address
    THEN /\ heap' = [k \in 1..Len(heap) |->
                       IF \E i \in 1..Len(shown) : shown[i] = k
                       THEN loaded[CHOOSE i \in 1..Len(shown) : shown[i] = k]
                       ELSE heap[k]]
         /\ UNCHANGED shown
    ELSE /\ heap' = heap \o loaded
         /\ shown' = [i \in 1..Len(loaded) |-> Len(heap) + i]

\* Lines 478 and 492: self.recipients = the list read_recipients_from_file
\* returns, a new list of the Recipient objects it made (manager, line 280).
StoreLoaded(loaded) ==
    /\ heap' = heap \o loaded
    /\ shown' = [i \in 1..Len(loaded) |-> Len(heap) + i]

\* The try of _load_recipients (lines 491-496) and of
\* _reload_recipients_with_default (477-481): on an error the handler returns.
LoadInto(lines, default) ==
    LET result == LoadOutcome(lines, default)
    IN IF result.ok
       THEN /\ Len(heap) + Len(result.recipients) <= MaxObjects
            /\ StoreLoaded(result.recipients)
            /\ load_result' = "loaded"
       ELSE /\ load_result' = "failed"
            /\ UNCHANGED <<heap, shown>>

\* The steps of this part leave the manager and the rest of the window alone.
sendRest == <<poolVars, cfgVars, perfVars, ctlVars, obsVars, now, awaitVars, parseVars, poolArgVars,
              raceVars, payVars, walletOpVars, airLoopVars, queryVars, workers, pool_dialog,
              confirming, gui_recipients, overlaps>>

\* _select_recipient_file, lines 445-453, and _load_recipients, 488-502: the
\* load button, one of action_buttons, with a file chosen in the dialog.
SelectRecipientFile(lines, default) ==
    /\ ~confirm_open /\ button_state = "normal"
    /\ path_chosen' = TRUE
    /\ LoadInto(lines, default)
    /\ UNCHANGED <<sendRest, button_state, after_queue, send_jobs, confirm_open, reload_pending>>

\* _on_default_amount_change, lines 455-460: the user edits the default
\* amount; the entry is no button and is never disabled.
ChangeDefaultAmount ==
    /\ ~confirm_open
    /\ path_chosen
    /\ reload_pending' = TRUE
    /\ load_result' = "none"
    /\ UNCHANGED <<sendRest, button_state, after_queue, heap, shown, send_jobs, confirm_open,
                   path_chosen>>

\* _reload_recipients_with_default, lines 462-486, run by the event loop when
\* the timer fires (also while the confirmation box is open), with a default
\* amount that parses.
ReloadFires(lines, default) ==
    /\ reload_pending
    /\ ~IsNone(default)
    /\ reload_pending' = FALSE
    /\ LoadInto(lines, default)
    /\ UNCHANGED <<sendRest, button_state, after_queue, send_jobs, confirm_open, path_chosen>>

\* _send_to_recipients, lines 600-616: the send button, up to the confirmation box.
ClickSendList ==
    /\ ~confirm_open /\ button_state = "normal"
    /\ shown # <<>> /\ wallet
    /\ confirm_open' = TRUE
    /\ load_result' = "none"
    /\ UNCHANGED <<sendRest, button_state, after_queue, heap, shown, send_jobs, reload_pending,
                   path_chosen>>

\* Lines 616-620: the user answers the box; on yes the thread is started with
\* list(self.recipients), a new list of the same objects.  asked keeps what
\* the window showed at that moment.
AnswerConfirm(yes) ==
    /\ confirm_open
    /\ confirm_open' = FALSE
    /\ load_result' = "none"
    /\ IF yes
       THEN \E t \in 1..MaxSends :
               /\ send_jobs[t].at = "free"
               /\ \A u \in 1..(t - 1) : send_jobs[u].at # "free"
               /\ send_jobs' = [send_jobs EXCEPT ![t] =
                     [at |-> "start", args |-> shown, asked |-> ValuesOf(heap, shown),
                      built |-> <<>>]]
       ELSE UNCHANGED send_jobs
    /\ UNCHANGED <<sendRest, button_state, after_queue, heap, shown, reload_pending, path_chosen>>

\* wrapper, lines 644-646: _set_busy(True) posts its update and
\* _send_payments_task calls manager.send_mass_payments(recipients, ...).
SendBegin(t) ==
    /\ send_jobs[t].at = "start"
    /\ Len(after_queue) < MaxPending
    /\ after_queue' = Append(after_queue, TRUE)
    /\ send_jobs' = [send_jobs EXCEPT ![t].at = "run"]
    /\ load_result' = "none"
    /\ UNCHANGED <<sendRest, button_state, heap, shown, confirm_open, reload_pending, path_chosen>>

\* send_mass_payments (manager, lines 321-329): the transfer to the next
\* recipient of the list is built from the object's address and lamports as
\* they are when the loop reaches it.
SendTransfer(t) ==
    /\ send_jobs[t].at = "run"
    /\ Len(send_jobs[t].built) < Len(send_jobs[t].args)
    /\ send_jobs' = [send_jobs EXCEPT ![t].built =
          Append(@, heap[send_jobs[t].args[Len(send_jobs[t].built) + 1]])]
    /\ load_result' = "none"
    /\ UNCHANGED <<sendRest, button_state, after_queue, heap, shown, confirm_open, reload_pending,
                   path_chosen>>

\* send_mass_payments returns or raises; wrapper, lines 647-648.
SendEnd(t) ==
    /\ send_jobs[t].at = "run"
    /\ Len(after_queue) < MaxPending
    /\ after_queue' = Append(after_queue, FALSE)
    /\ send_jobs' = [send_jobs EXCEPT ![t] = NoJob]
    /\ load_result' = "none"
    /\ UNCHANGED <<sendRest, button_state, heap, shown, confirm_open, reload_pending, path_chosen>>

\* _set_busy.update, lines 655-660, run by the event loop.
RunBusyUpdate ==
    /\ after_queue # <<>>
    /\ button_state' = IF Head(after_queue) THEN "disabled" ELSE "normal"
    /\ after_queue' = Tail(after_queue)
    /\ load_result' = "none"
    /\ UNCHANGED <<sendRest, heap, shown, send_jobs, confirm_open, reload_pending, path_chosen>>

\* --------------------------------------------------------- construction
\* __init__, lines 67-78, for the endpoints that do not make it raise.
InitManager ==
    /\ \E url \in { u \in RawUrls : Strip(u) # <<>> }, to \in {1} :
          /\ rpc_endpoints = << Strip(url) >>
          /\ endpoint = Strip(url)
          /\ client = NewClient(Strip(url), to)
          /\ timeout = to
    /\ current_endpoint_index = 0
    /\ \E r \in 0..MaxRetriesArg : max_retries_per_endpoint = Max(1, r)
    /\ \E b \in {-1, 0, 1} : retry_backoff_seconds = Max(0, b)

InitIdle ==
    /\ attempts = 0 /\ total_endpoints = 0 /\ max_attempts = 0 /\ last_error = NoError
    /\ op = "none" /\ pc = "idle" /\ outcome = "none" /\ raised = NoRaise
    /\ calls = <<>> /\ call_error = NoError /\ slept = 0 /\ start_index = 0
    /\ now = 0
    /\ urls = <<>>

InitAwait ==
    /\ signature = NoSignature /\ deadline = 0 /\ commitment = "confirmed"
    /\ last_status = None /\ polls = 0 /\ last_polled = <<>> /\ last_present = None

\* The finished operation's result is taken by its caller; its locals and the
\* observations made of it are dropped.
Return ==
    /\ pc = "done"
    /\ pc' = "idle" /\ op' = "none" /\ outcome' = "none" /\ raised' = NoRaise
    /\ attempts' = 0 /\ total_endpoints' = 0 /\ max_attempts' = 0 /\ last_error' = NoError
    /\ calls' = <<>> /\ call_error' = NoError /\ slept' = 0 /\ start_index' = 0
    /\ now' = 0
    /\ urls' = <<>>
    /\ AwaitReset
    /\ default_amount_sol' = None /\ returned' = <<>>
    /\ recipients' = <<>> /\ max_per_transaction' = None /\ batch_size' = 0
    /\ compute_unit_limit' = None
    /\ compute_unit_price' = None /\ chunk_index' = 0 /\ signatures' = <<>>
    /\ instructions' = <<>> /\ tx' = NoSignature
    /\ ledger' = <<>> /\ blockhashes' = 0 /\ confirmed' = <<>>
    /\ decimal_amount' = 0 /\ chunk_limit' = 0 /\ airdrop_max_attempts' = 0 /\ pause_seconds' = 0
    /\ remaining' = 0 /\ pauses' = 0 /\ chunk_amount' = 0 /\ chunk_lamports' = 0
    /\ attempt' = 0 /\ request_error' = NoError /\ retry_sleeps' = <<>> /\ request_calls' = 0
    /\ airdrops' = 0 /\ airdrop_signatures' = <<>> /\ chunk_amounts' = <<>>
    /\ balance_sol' = None
    /\ fetch_addresses' = <<>> /\ unique_addresses' = <<>> /\ fetch_index' = 0
    /\ balances_unique' = <<>> /\ queries' = <<>> /\ balances' = None
    /\ ping_timeout' = 0 /\ is_ok' = None /\ elapsed' = 0
    /\ UNCHANGED <<poolVars, cfgVars, file_exists, file, last_recipient_warnings, payCfgVars,
                   accounts_query_chunk, guiVars, threadVars>>

\* __init__, line 77, and no load made yet.
InitParse ==
    /\ file_exists = FALSE
    /\ file = <<>> /\ default_amount_sol = None /\ returned = <<>>
    /\ last_recipient_warnings = <<>>

\* __init__, lines 71-73; no wallet is loaded and no payment was made.
InitPayWith(max_recipients_arg, limit_arg, price_arg) ==
    /\ wallet = FALSE
    /\ default_max_recipients_per_tx = Max(1, max_recipients_arg)
    /\ default_compute_unit_limit = limit_arg
    /\ default_compute_unit_price = price_arg
    /\ recipients = <<>> /\ max_per_transaction = None /\ batch_size = 0
    /\ compute_unit_limit = None
    /\ compute_unit_price = None /\ chunk_index = 0 /\ signatures = <<>>
    /\ instructions = <<>> /\ tx = NoSignature
    /\ ledger = <<>> /\ blockhashes = 0 /\ confirmed = <<>>

\* The constructor's defaults (lines 63-65).
InitPay == InitPayWith(10, Some(200000), None)

\* No airdrop and no balance query was made yet.
InitWalletOps ==
    /\ decimal_amount = 0 /\ chunk_limit = 0 /\ airdrop_max_attempts = 0 /\ pause_seconds = 0
    /\ remaining = 0 /\ pauses = 0 /\ chunk_amount = 0 /\ chunk_lamports = 0
    /\ attempt = 0 /\ request_error = NoError /\ retry_sleeps = <<>> /\ request_calls = 0
    /\ airdrops = 0 /\ airdrop_signatures = <<>> /\ chunk_amounts = <<>>
    /\ balance_sol = None

\* __init__, line 70, and no balances fetched and no ping made yet.
InitQueryWith(accounts_query_chunk_arg) ==
    /\ accounts_query_chunk = Max(1, accounts_query_chunk_arg)
    /\ fetch_addresses = <<>> /\ unique_addresses = <<>> /\ fetch_index = 0
    /\ balances_unique = <<>> /\ queries = <<>> /\ balances = None
    /\ ping_timeout = 0 /\ is_ok = None /\ elapsed = 0

\* The constructor's default page size (line 62).
InitQuery == InitQueryWith(95)

Init ==
    /\ InitManager /\ InitIdle /\ InitAwait /\ InitParse /\ InitPay /\ InitWalletOps /\ InitQuery /\ InitGui
    /\ InitRace /\ InitSend

\* The constructor called with a small default batch size, with and without a
\* default compute-unit limit.
InitPayAny ==
    /\ InitManager /\ InitIdle /\ InitAwait /\ InitParse /\ InitWalletOps /\ InitQuery /\ InitGui
    /\ InitRace /\ InitSend
    /\ rpc_endpoints = << <<"a">> >>
    /\ max_retries_per_endpoint = 2
    /\ retry_backoff_seconds = 0
    /\ \E m \in {0, MaxBatch}, limit \in {None, Some(200000)} : InitPayWith(m, limit, None)

SetPool ==
    \E endpoints \in UrlLists, mr \in {None} \cup { Some(r) : r \in 0..MaxRetriesArg },
       rb \in {None, Some(-1), Some(1)}, to \in {None, Some(2)} :
          set_rpc_pool(endpoints, mr, rb, to)

SetEndpoint ==
    \E endpoint_arg \in RawUrls, to \in {None, Some(2)} : set_endpoint(endpoint_arg, to)

Next ==
    \/ SetPool
    \/ SetEndpoint
    \/ InvokeCall
    \/ InvokeAttemptOk
    \/ \E exc \in Errors : InvokeAttemptFail(exc)
    \/ Return

Spec == Init /\ [][Next]_vars

\* Mass payments, with the polls of their confirmation waits.
PayPollResults ==
    { None,
      Some([err |-> "None", confirmation_status |-> "processed", confirmations |-> Some(0)]),
      Some([err |-> "None", confirmation_status |-> "confirmed", confirmations |-> None]),
      Some([err |-> "InstructionError", confirmation_status |-> "None", confirmations |-> None]) }

NextPay ==
    \/ LoadWallet
    \/ \E recips \in RecipientLists, m \in {None} \cup { Some(b) : b \in -1..MaxBatch },
          budget \in { <<None, None>>, <<Some(300000), Some(5)>> } :
             send_mass_payments(recips, m, budget[1], budget[2])
    \/ PayLoop
    \/ PayBlockhashOk
    \/ \E exc \in Errors : PayBlockhashFail(exc)
    \/ PaySendOk
    \/ \E exc \in Errors, landed \in BOOLEAN : PaySendFail(exc, landed)
    \/ \E status \in PayPollResults : AwaitPollOk(status)
    \/ \E exc \in Errors : AwaitPollFail(exc)
    \/ Return

SpecPay == InitPayAny /\ [][NextPay]_vars

\* The operations that need the wallet: mass payments, airdrops and the
\* balance query, before and after the wallet is loaded.
NextWallet ==
    \/ NextPay
    \/ \E amount \in AirdropAmounts, limit \in AirdropLimits,
          m \in 0..MaxAirdropAttempts, pause \in {2} :
             request_airdrop(amount, limit, m, pause)
    \/ AirLoop
    \/ AirAttempt
    \/ AirRequestOk
    \/ \E exc \in Errors : AirRequestFail(exc)
    \/ get_balance_sol
    \/ \E value \in BalanceValues : BalanceOk(value)
    \/ \E exc \in Errors : BalanceFail(exc)

SpecWallet == InitPayAny /\ [][NextWallet]_vars

\* One load of a recipient file.
NextParse ==
    \/ CreateFile
    \/ \E line \in FileLines : WriteLine(line)
    \/ \E default \in DefaultAmounts : read_recipients_from_file(default)

\* The manager as its constructor leaves it for one choice of arguments.
InitOne ==
    /\ Init
    /\ rpc_endpoints = << <<"a">> >>
    /\ max_retries_per_endpoint = 1
    /\ retry_backoff_seconds = 0

SpecParse == InitOne /\ [][NextParse]_vars

\* Loads of a recipient file one after the other, the file being written,
\* removed and created again between them.
ReloadLines ==
    { <<"A", " ", "1">>, <<"B">>, <<"bad", " ", "1">>, <<"B", " ", "0">>, <<"#", " ", "A">> }

NextReload ==
    \/ CreateFile
    \/ DeleteFile
    \/ \E line \in ReloadLines : WriteLine(line)
    \/ \E default \in {None, Some(DecimalScale)} : read_recipients_from_file(default)
    \/ Return

SpecReload == InitOne /\ [][NextReload]_vars

\* The window's recipient loads and sends, with the wallet loaded.
NextSend ==
    \/ LoadWallet
    \/ \E lines \in GuiFiles, default \in GuiDefaults : SelectRecipientFile(lines, default)
    \/ ChangeDefaultAmount
    \/ \E lines \in GuiFiles, default \in GuiDefaults : ReloadFires(lines, default)
    \/ ClickSendList
    \/ \E yes \in BOOLEAN : AnswerConfirm(yes)
    \/ \E t \in 1..MaxSends :
          \/ SendBegin(t)
          \/ SendTransfer(t)
          \/ SendEnd(t)
    \/ RunBusyUpdate

SpecSend == InitOne /\ [][NextSend]_vars

\* Threads of _run_background inside _perform while the main thread
\* reconfigures the pool.
NextRace ==
    \/ \E endpoints \in RacePools : PoolCallBegin(endpoints)
    \/ PoolStoreEndpoints
    \/ PoolStoreIndex
    \/ PoolStoreEndpoint
    \/ PoolStoreClient
    \/ \E t \in 1..MaxThreads :
          \/ BgPerform(t)
          \/ BgCallOk(t)
          \/ BgCallFail(t)
          \/ RotateCheck(t)
          \/ RotateCompute(t)
          \/ RotateStore(t)
          \/ RotateEndpoint(t)
          \/ RotateClient(t)
          \/ BgReturn(t)

SpecRace == InitOne /\ [][NextRace]_vars

\* Airdrops on pools of one and two endpoints, with one or two retries per
\* endpoint and with and without a pool back-off.
NextAirdrop ==
    \/ \E endpoints \in { << <<"a">> >>, << <<"a">>, <<"b">> >> },
          r \in 1..MaxRetriesArg, b \in {0, 1} :
             set_rpc_pool(endpoints, Some(r), Some(b), None)
    \/ LoadWallet
    \/ \E amount \in {10, 20}, m \in -1..MaxAirdropAttempts, pause \in {2, 3} :
          request_airdrop(amount, 10, m, pause)
    \/ AirLoop
    \/ AirAttempt
    \/ AirRequestOk
    \/ \E exc \in Errors : AirRequestFail(exc)
    \/ \E status \in PayPollResults : AwaitPollOk(status)
    \/ \E exc \in Errors : AwaitPollFail(exc)
    \/ Return

SpecAirdrop == InitOne /\ [][NextAirdrop]_vars

\* The confirmation wait on its own.
NextConfirm ==
    \/ \E t \in -1..MaxTimeout, c \in Commitments : AwaitCall(t, c)
    \/ \E status \in PollResults : AwaitPollOk(status)
    \/ \E exc \in Errors : AwaitPollFail(exc)
    \/ Return

SpecConfirm == Init /\ [][NextConfirm]_vars

\* A transport call of the wait returns or raises.
PollStep ==
    \/ \E status \in PollResults : AwaitPollOk(status)
    \/ \E exc \in Errors : AwaitPollFail(exc)

\* The confirmation wait where every status query that is made comes back:
\* the thread of the wait is not stopped between two statements, and time.sleep
\* returns.
SpecConfirmFair == Init /\ [][NextConfirm]_vars /\ WF_vars(PollStep)

\* The read-only queries: ping and fetch_balances, on a manager built with a
\* small page size and a back-off of one second.
InitQueryAny ==
    /\ InitManager /\ InitIdle /\ InitAwait /\ InitParse /\ InitPay /\ InitWalletOps /\ InitGui
    /\ InitRace /\ InitSend
    /\ rpc_endpoints = << <<"a">> >>
    /\ retry_backoff_seconds = 1
    /\ \E page \in 0..MaxPage : InitQueryWith(page)

NextQuery ==
    \/ \E addresses_arg \in AddressLists : fetch_balances(addresses_arg)
    \/ FetchLoop
    \/ \E value \in UNION { [1..n -> AccountValues] : n \in 1..MaxPage } : FetchQueryOk(value)
    \/ \E exc \in Errors : FetchQueryFail(exc)
    \/ \E t \in 0..MaxPingTimeout : ping(t)
    \/ \E connected \in BOOLEAN, d \in CallDurations : PingReturn(connected, d)
    \/ \E exc \in Errors : PingFail(exc)
    \/ Return

SpecQuery == InitQueryAny /\ [][NextQuery]_vars

\* The window: the user's clicks, the worker threads and the event loop.
NextGui ==
    \/ GuiLoadWallet
    \/ GuiLoadRecipients
    \/ ClickSend
    \/ \E yes \in BOOLEAN : ConfirmSend(yes)
    \/ \E task \in Tasks \ {"send_mass_payments"} : ClickTask(task)
    \/ \E t \in 1..MaxWorkers : WorkerBegin(t)
    \/ \E t \in 1..MaxWorkers : WorkerEnd(t)
    \/ RunUpdate
    \/ ClickConnect
    \/ on_network_change
    \/ ClickPool
    \/ save_pool
    \/ ClosePool

SpecGui == InitOne /\ [][NextGui]_vars

\* Every operation of the manager on one pool, each with a few arguments; the
\* pool is reconfigured to two endpoints and back to one.
NextAll ==
    \/ set_rpc_pool(<< <<"a">>, <<"b">> >>, None, None, None)
    \/ set_endpoint(<<"a">>, None)
    \/ InvokeCall
    \/ InvokeAttemptOk
    \/ InvokeAttemptFail("E1")
    \/ ping(1)
    \/ \E connected \in BOOLEAN, d \in CallDurations : PingReturn(connected, d)
    \/ PingFail("E1")
    \/ \E addresses_arg \in { << <<"A">>, <<"B">>, <<"A">> >>, << <<"A">>, <<"bad">> >> } :
          fetch_balances(addresses_arg)
    \/ FetchLoop
    \/ \E value \in [1..2 -> {None, Some(LAMPORTS_PER_SOL)}] : FetchQueryOk(value)
    \/ FetchQueryFail("E1")
    \/ LoadWallet
    \/ \E m \in {Some(0), Some(1)} :
          send_mass_payments(<< Recipient(<<"A">>, 1), Recipient(<<"B">>, 2) >>, m, None, None)
    \/ PayLoop
    \/ PayBlockhashOk
    \/ PayBlockhashFail("E1")
    \/ PaySendOk
    \/ \E landed \in BOOLEAN : PaySendFail("E1", landed)
    \/ \E status \in PayPollResults : AwaitPollOk(status)
    \/ AwaitPollFail("E1")
    \/ \E amount \in {0, 20} : request_airdrop(amount, 10, 1, 2)
    \/ AirLoop
    \/ AirAttempt
    \/ AirRequestOk
    \/ AirRequestFail("E1")
    \/ CreateFile
    \/ \E line \in { <<"A", " ", "1">>, <<"B", " ", "0">> } : WriteLine(line)
    \/ read_recipients_from_file(None)
    \/ Return

SpecAll == InitOne /\ [][NextAll]_vars

\* ------------------------------------------------------------------ C1
\* C1: an invoke whose operation fails on every attempt calls it exactly N*R
\* times (N endpoints, R retries per endpoint), the j-th call going to the
\* endpoint floor((j-1)/R) places after the starting one (wrapping), and
\* then ends with RetryExhausted; a running invoke has made fewer than N*R calls.
InvokeRotationPattern ==
    LET N == Len(rpc_endpoints)
        R == max_retries_per_endpoint
    IN \A j \in 1..Len(calls) :
          calls[j].url = rpc_endpoints[((start_index + ((j - 1) \div R)) % N) + 1]

C1_ExactlyNRAttempts ==
    LET N == Len(rpc_endpoints)
        R == max_retries_per_endpoint
    IN /\ (op = "invoke" /\ pc = "perform") =>
             (Len(calls) = attempts /\ attempts < N * R /\ InvokeRotationPattern)
       /\ (op = "invoke" /\ pc = "done" /\ outcome = "RuntimeError") =>
             (Len(calls) = N * R /\ InvokeRotationPattern /\ raised.type = "RetryExhausted")
       /\ (op = "invoke" /\ pc = "done" /\ outcome = "ok") =>
             (Len(calls) <= N * R /\ InvokeRotationPattern)

C1_Witness ==
    /\ op = "invoke" /\ pc = "done" /\ outcome = "RuntimeError"
    /\ Len(rpc_endpoints) = 2 /\ max_retries_per_endpoint = 2
    /\ Len(calls) = 4
    /\ calls[2].url # calls[3].url

\* ------------------------------------------------------------------ C10
\* C10: the RetryExhausted error of an invoke carries the error raised by the
\* final failed attempt.
C10_CarriesFinalError ==
    (op = "invoke" /\ pc = "done" /\ outcome = "RuntimeError") =>
        (raised.type = "RetryExhausted" /\ raised.cause = call_error /\ raised.cause \in Errors)

C10_Witness ==
    /\ op = "invoke" /\ pc = "done" /\ outcome = "RuntimeError"
    /\ Len(calls) >= 2
    /\ raised.cause = "E2"

\* ------------------------------------------------------------------ C7
\* The order of the commitment levels.
LevelRank(name) ==
    CASE name = "finalized" -> 3
      [] name = "confirmed" -> 2
      [] name = "processed" -> 1
      [] OTHER -> 0

HasPositiveConfirmations(st) == ~IsNone(st.confirmations) /\ Val(st.confirmations) > 0

\* C7: a wait that ends in success on a named level (no positive confirmation
\* count) ended on a level at or above the requested commitment; with
\* commitment finalized, a status named confirmed does not end it in success.
C7_LevelAtOrAboveCommitment ==
    (op = "await" /\ pc = "done" /\ outcome = "ok" /\ last_polled # <<>>
        /\ ~IsNone(last_polled[1]) /\ ~HasPositiveConfirmations(Val(last_polled[1])))
    => LevelRank(Lower(Val(last_polled[1]).confirmation_status)) >= LevelRank(commitment)

\* ------------------------------------------------------------------ C8
\* C8: when the latest poll returned a status with err set, the wait has ended
\* on that poll with TransactionFailed carrying that err, whatever level or
\* confirmation count the status also has; no further query follows.
C8_ErrFailsImmediately ==
    (last_polled # <<>> /\ ~IsNone(last_polled[1]) /\ Val(last_polled[1]).err # "None")
    => /\ pc = "done"
       /\ outcome = "RuntimeError"
       /\ raised.type = "TransactionFailed"
       /\ raised.cause = Val(last_polled[1]).err

C8_Witness ==
    /\ op = "await" /\ pc = "done" /\ outcome = "RuntimeError"
    /\ raised.type = "TransactionFailed"
    /\ polls = 2
    /\ last_polled = << Some([err |-> "InstructionError", confirmation_status |-> "Finalized",
                              confirmations |-> Some(1)]) >>

\* ------------------------------------------------------------------ C9
\* A polled status that resolves the wait: error set, a named level the wait
\* accepts, or a positive confirmation count.
Resolving(status) ==
    /\ ~IsNone(status)
    /\ \/ Val(status).err # "None"
       \/ Lower(Val(status).confirmation_status) \in {"confirmed", "finalized"}
       \/ HasPositiveConfirmations(Val(status))

NoResolvingPoll == last_polled = <<>> \/ ~Resolving(last_polled[1])

LineResult(i) ==
    LET line == CleanLine(file[i])
    IN IF IsNone(line) THEN None
       ELSE Some(parse_recipient_line(Val(line), i, default_amount_sol))

\* Line i has a valid address and an amount that is zero, negative or below one lamport.
ZeroAmountLine(i) == ~IsNone(LineResult(i)) /\ Val(LineResult(i)).kind = "error"

\* C4: a line whose amount is zero, negative or converts to zero lamports is a
\* warning for that line and a skip: the load does not fail on it, it records a
\* warning naming the line, and no returned recipient has zero lamports.
C4_ZeroAmountIsWarning ==
    (op = "read" /\ pc = "done") =>
        /\ \A i \in 1..Len(file) :
              ZeroAmountLine(i) =>
                 /\ outcome \in {"ok", "RecipientParseError"}
                 /\ \E w \in 1..Len(last_recipient_warnings) : last_recipient_warnings[w].line = i
        /\ \A r \in 1..Len(returned) : returned[r].lamports > 0

\* ------------------------------------------------------------------ C5
\* The recipients of the accepted lines of the file, in line order.
RECURSIVE AcceptedFrom(_)
AcceptedFrom(i) ==
    IF i > Len(file) THEN <<>>
    ELSE IF ~IsNone(LineResult(i)) /\ Val(LineResult(i)).kind = "recipient"
         THEN <<Val(LineResult(i)).value>> \o AcceptedFrom(i + 1)
         ELSE AcceptedFrom(i + 1)
AcceptedLines == AcceptedFrom(1)

RECURSIVE SumLamportsOf(_, _)
SumLamportsOf(list, addresses) ==
    IF list = <<>> THEN 0
    ELSE (IF Head(list).address \in addresses THEN Head(list).lamports ELSE 0)
         + SumLamportsOf(Tail(list), addresses)

FirstIndex(list, address) == CHOOSE i \in 1..Len(list) :
    list[i].address = address /\ \A k \in 1..(i - 1) : list[k].address # address

\* C5: a load that returns gives one recipient per distinct accepted address,
\* in order of first occurrence, with the sum of that address's accepted
\* lamports; the totals of the result and of the accepted lines are equal.
C5_AggregatesByAddress ==
    (op = "read" /\ pc = "done" /\ outcome = "ok") =>
        LET acc == AcceptedLines
        IN /\ { returned[i].address : i \in 1..Len(returned) } = { acc[k].address : k \in 1..Len(acc) }
           /\ \A i, j \in 1..Len(returned) :
                 i < j => /\ returned[i].address # returned[j].address
                          /\ FirstIndex(acc, returned[i].address) < FirstIndex(acc, returned[j].address)
           /\ \A i \in 1..Len(returned) :
                 returned[i].lamports = SumLamportsOf(acc, {returned[i].address})
           /\ SumLamportsOf(returned, ValidAddresses) = SumLamportsOf(acc, ValidAddresses)

C5_Witness ==
    /\ op = "read" /\ pc = "done" /\ outcome = "ok"
    /\ file = << <<"A", " ", "1">>, <<"B", ";", " ", "1.5lamports">>, <<"A", ",", "2">> >>
    /\ returned = << Recipient(<<"A">>, 3 * LAMPORTS_PER_SOL), Recipient(<<"B">>, 1) >>

\* ------------------------------------------------------------------ C2
\* The transfer instructions of the transactions on the ledger, in order.
RECURSIVE TransfersOf(_)
TransfersOf(txs) ==
    IF txs = <<>> THEN <<>>
    ELSE SelectSeq(Head(txs).ix, LAMBDA ins : ins.program = "transfer") \o TransfersOf(Tail(txs))

RECURSIVE SumValues(_)
SumValues(ixs) == IF ixs = <<>> THEN 0 ELSE Head(ixs).value + SumValues(Tail(ixs))

\* C2: when send_mass_payments returns normally, the transfers of the
\* transactions that reached the ledger are, position by position, the
\* recipients of the list with their lamports (none omitted, none twice), every
\* such transaction was confirmed, and the total is sum_lamports(recipients).
C2_EveryRecipientPaidOnce ==
    (op = "pay" /\ pc = "done" /\ outcome = "ok") =>
        /\ TransfersOf(ledger) = Transfers(recipients)
        /\ \A i \in 1..Len(ledger) : \E j \in 1..Len(confirmed) : confirmed[j] = ledger[i]
        /\ \A i, j \in 1..Len(ledger) : i # j => ledger[i] # ledger[j]
        /\ SumValues(TransfersOf(ledger)) = sum_lamports(recipients)

C2_Witness ==
    /\ op = "pay" /\ pc = "done" /\ outcome = "ok"
    /\ Len(recipients) = 3 /\ batch_size = 2
    /\ recipients[1] = recipients[3]
    /\ Len(ledger) = 2
    /\ SumValues(TransfersOf(ledger)) = 4

\* ------------------------------------------------------------------ C3
\* C3: when a chunk after the first fails, no later chunk is submitted and the
\* failure delivered to the caller shows the signatures of the chunks that
\* completed before it.
C3_FailureReportsCompleted ==
    (op = "pay" /\ pc = "done" /\ outcome \notin {"ok", "none"} /\ Len(signatures) >= 1)
    => /\ Len(ledger) <= Len(signatures) + 1
       /\ \A i \in 1..Len(signatures) :
             \E j \in 1..Len(raised.sigs) : raised.sigs[j] = signatures[i]

\* ------------------------------------------------------------------ C6
\* C6: with a wallet loaded, send_mass_payments called with an explicit
\* max_per_transaction below 1 (0 included) fails with ValueError and submits nothing.
C6_RejectsBatchBelowOne ==
    (op = "pay" /\ wallet /\ ~IsNone(max_per_transaction) /\ Val(max_per_transaction) < 1)
    => (pc = "done" /\ outcome = "ValueError" /\ ledger = <<>>)

\* ------------------------------------------------------------------ C11
\* C11: a set_rpc_pool call that fails leaves the endpoint list, the active
\* index, the active endpoint, max_retries_per_endpoint, retry_backoff_seconds
\* and timeout as they were before the call.
C11_FailedPoolCallChangesNothing ==
    [][ (pc = "idle" /\ op' = "set_rpc_pool" /\ outcome' = "ValueError")
        => UNCHANGED <<rpc_endpoints, current_endpoint_index, endpoint,
                       max_retries_per_endpoint, retry_backoff_seconds, timeout>> ]_vars

\* ------------------------------------------------------------------ C12
\* t is u without its leading and trailing blanks.
IsTrimOf(t, u) ==
    /\ t = <<>> \/ (t[1] # " " /\ t[Len(t)] # " ")
    /\ \E i \in 0..Len(u) : \E j \in i..Len(u) :
          /\ t = SubSeq(u, i + 1, j)
          /\ \A k \in (1..i) \cup ((j + 1)..Len(u)) : u[k] = " "

\* The position in input of the first url that trims to t.
FirstSeen(input, t) ==
    CHOOSE k \in 1..Len(input) :
        IsTrimOf(t, input[k]) /\ \A m \in 1..(k - 1) : ~IsTrimOf(t, input[m])

\* pool holds the trimmed, non-blank urls of input, each once, in first-seen order.
IsCleanedPool(input, pool) ==
    /\ \A i \in 1..Len(pool) : pool[i] # <<>> /\ \E k \in 1..Len(input) : IsTrimOf(pool[i], input[k])
    /\ \A k \in 1..Len(input) : \A a \in 0..Len(input[k]) : \A b \in a..Len(input[k]) :
          LET t == SubSeq(input[k], a + 1, b)
          IN (t # <<>> /\ IsTrimOf(t, input[k])) => \E i \in 1..Len(pool) : pool[i] = t
    /\ \A i, j \in 1..Len(pool) :
          i < j => /\ pool[i] # pool[j]
                   /\ FirstSeen(input, pool[i]) < FirstSeen(input, pool[j])

\* C12: after a successful set_rpc_pool(urls), rpc_endpoints is the trimmed,
\* non-blank urls with later duplicates removed in first-seen order, the active
\* index is 0 and the active endpoint is the first entry, whatever the active
\* index was before the call.
C12_PoolIsCleanedUrls ==
    (op = "set_rpc_pool" /\ pc = "done" /\ outcome = "ok") =>
        /\ IsCleanedPool(urls, rpc_endpoints)
        /\ current_endpoint_index = 0
        /\ endpoint = rpc_endpoints[1]

C12_Witness ==
    /\ op = "set_rpc_pool" /\ pc = "done" /\ outcome = "ok"
    /\ start_index = 1
    /\ urls = << <<" ", "a">>, <<"a">> >>
    /\ rpc_endpoints = << <<"a">> >>

\* ------------------------------------------------------------------ C13
\* C13: in every state reached by the constructor, set_endpoint, set_rpc_pool
\* and invokes (failed ones included), the pool has at least one endpoint, no
\* two entries are equal, 0 <= active index < pool size, and the active
\* endpoint is pool[active index].
C13_PoolInvariant ==
    /\ Len(rpc_endpoints) >= 1
    /\ \A i, j \in 1..Len(rpc_endpoints) : i # j => rpc_endpoints[i] # rpc_endpoints[j]
    /\ 0 <= current_endpoint_index /\ current_endpoint_index < Len(rpc_endpoints)
    /\ endpoint = rpc_endpoints[current_endpoint_index + 1]

C13_Witness ==
    /\ op = "set_rpc_pool" /\ pc = "done" /\ outcome = "ValueError"
    /\ Len(rpc_endpoints) = 2
    /\ current_endpoint_index = 1

\* ------------------------------------------------------------------ C14
\* The transfer instructions of one transaction.
TransfersIn(t) == SelectSeq(t.ix, LAMBDA ins : ins.program = "transfer")

\* C14: a send_mass_payments call that returns has put exactly ceil(n/b)
\* transactions on the ledger (n recipients, batch size b >= 1); the i-th holds
\* the recipients at positions (i-1)*b+1 .. min(i*b, n) in input order; the
\* returned list holds the signature of each chunk's transaction in chunk order.
C14_ChunksInOrder ==
    (op = "pay" /\ pc = "done" /\ outcome = "ok") =>
        LET n == Len(recipients)
            b == batch_size
            chunks == (n + b - 1) \div b
        IN /\ b >= 1
           /\ Len(ledger) = chunks
           /\ \A i \in 1..chunks :
                 LET lo == (i - 1) * b + 1
                     hi == Min(i * b, n)
                     tr == TransfersIn(ledger[i])
                 IN /\ Len(tr) = hi - lo + 1
                    /\ \A k \in 1..Len(tr) :
                          /\ tr[k].to = recipients[lo + k - 1].address
                          /\ tr[k].value = recipients[lo + k - 1].lamports
           /\ signatures = ledger

C14_Witness ==
    /\ op = "pay" /\ pc = "done" /\ outcome = "ok"
    /\ Len(recipients) = 3 /\ batch_size = 2
    /\ recipients[2] # recipients[3]
    /\ Len(signatures) = 2
    /\ Len(TransfersIn(ledger[1])) = 2 /\ Len(TransfersIn(ledger[2])) = 1

\* ------------------------------------------------------------------ C15
\* C15: while send_mass_payments queries the blockhash for a chunk, submits it
\* or waits for it, every earlier chunk's wait has returned success: the
\* confirmed signatures are those of all earlier chunks, at most the running
\* chunk's transaction is on the ledger unconfirmed, and nothing of the running
\* chunk is on the ledger before its blockhash query has returned.
C15_OneChunkOutstanding ==
    (op = "pay" /\ pc \in {"blockhash", "send", "poll"}) =>
        /\ confirmed = signatures
        /\ chunk_index = Len(signatures) * batch_size
        /\ Len(ledger) <= Len(confirmed) + 1
        /\ \A i \in 1..Len(ledger) :
              (\E j \in 1..Len(confirmed) : confirmed[j] = ledger[i]) \/ (ledger[i] = tx /\ pc # "blockhash")
        /\ pc = "blockhash" => (Len(ledger) = Len(confirmed) /\ blockhashes = Len(confirmed))

C15_Witness ==
    /\ op = "pay" /\ pc = "send" /\ attempts = 1
    /\ Len(confirmed) = 1
    /\ Len(ledger) = 2

\* ------------------------------------------------------------------ C16
\* C16: the transaction of the i-th chunk is signed against the result of the
\* i-th successful latest-blockhash query, which is made for that chunk after
\* the chunks before it completed: one successful query per chunk, and no two
\* transactions carry the result of the same query.
C16_FreshBlockhashPerChunk ==
    (op = "pay") =>
        /\ \A i \in 1..Len(ledger) : ledger[i].bh = i
        /\ \A i, j \in 1..Len(ledger) : i # j => ledger[i].bh # ledger[j].bh
        /\ pc = "blockhash" => blockhashes = Len(signatures)
        /\ pc \in {"send", "poll"} => (blockhashes = Len(signatures) + 1 /\ tx.bh = blockhashes)
        /\ (pc = "done" /\ outcome = "ok") =>
              (blockhashes = Len(signatures)
               /\ blockhashes = (Len(recipients) + batch_size - 1) \div batch_size)

C16_Witness ==
    /\ op = "pay" /\ pc = "poll" /\ polls = 1
    /\ blockhashes = 2
    /\ tx.bh = 2
    /\ Len(ledger) = 2 /\ ledger[1].bh = 1

\* ------------------------------------------------------------------ C18
\* The tokens of line i, or <<>> where the line is skipped as blank or comment.
TokensOf(i) ==
    IF IsNone(CleanLine(file[i])) THEN <<>> ELSE SplitTokens(Val(CleanLine(file[i])), <<>>, <<>>)

BadAddressLine(i) == TokensOf(i) # <<>> /\ TokensOf(i)[1] \notin ValidAddresses
NoAmountLine(i) == Len(TokensOf(i)) = 1 /\ TokensOf(i)[1] \in ValidAddresses

\* The warnings of the load that name line i.
WarningsNaming(i) == { w \in 1..Len(last_recipient_warnings) : last_recipient_warnings[w].line = i }

\* The lines after the skipped ones are processed: the load is not aborted and
\* returns the addresses of all accepted lines.
LoadGoesOn ==
    /\ outcome \in {"ok", "RecipientParseError"}
    /\ { returned[r].address : r \in 1..Len(returned) }
          = { AcceptedLines[k].address : k \in 1..Len(AcceptedLines) }

\* C18: in a load of an existing file, a line whose first token is not a valid
\* address, and a line with a valid address, no amount and no default amount,
\* each produce exactly one warning naming the line and no recipient, and the
\* other lines are still processed; a line with a valid address and no amount
\* gets the default amount when one is supplied (a warning and skip when that
\* amount is below one lamport).
C18_BadLineIsWarningAndSkip ==
    (op = "read" /\ pc = "done" /\ file_exists) =>
        \A i \in 1..Len(file) :
            /\ (BadAddressLine(i) \/ (NoAmountLine(i) /\ IsNone(default_amount_sol))) =>
                  /\ Cardinality(WarningsNaming(i)) = 1
                  /\ LoadGoesOn
                  /\ BadAddressLine(i) =>
                        \A r \in 1..Len(returned) : returned[r].address # TokensOf(i)[1]
            /\ (NoAmountLine(i) /\ ~IsNone(default_amount_sol)) =>
                  LET lamports == (Val(default_amount_sol) * LAMPORTS_PER_SOL) \div DecimalScale
                  IN /\ LoadGoesOn
                     /\ lamports >= 1 =>
                           \E r \in 1..Len(returned) :
                               /\ returned[r].address = TokensOf(i)[1]
                               /\ returned[r].lamports >= lamports
                     /\ lamports < 1 => Cardinality(WarningsNaming(i)) = 1

\* ------------------------------------------------------------------ C19
\* Some line of the file is neither skipped as blank or comment nor accepted.
SomeLineRejected ==
    \E i \in 1..Len(file) : ~IsNone(LineResult(i)) /\ Val(LineResult(i)).kind # "recipient"

\* C19: a load of an existing file fails with RecipientParseError exactly when
\* no line of the file gives a valid recipient; the failure has the
\* malformed-file message if and only if some line was rejected with a warning,
\* and the empty/all-comments message if and only if none was.
C19_EmptySetIsParseError ==
    (op = "read" /\ pc = "done" /\ file_exists) =>
        /\ (outcome = "RecipientParseError") <=> (AcceptedLines = <<>>)
        /\ outcome = "RecipientParseError" =>
              /\ (raised.type = "NoValidRecipients") <=> SomeLineRejected
              /\ (raised.type = "EmptyFile") <=> ~SomeLineRejected

\* ------------------------------------------------------------------ C20
\* C20: a list returned by read_recipients_from_file is non-empty, holds no two
\* recipients with the same address, and each recipient has lamports > 0 and an
\* address that passed the address validation.
C20_ReturnedListIsValid ==
    (op = "read" /\ pc = "done" /\ outcome = "ok") =>
        /\ returned # <<>>
        /\ \A i, j \in 1..Len(returned) : i # j => returned[i].address # returned[j].address
        /\ \A i \in 1..Len(returned) :
              /\ returned[i].lamports > 0
              /\ returned[i].address \in ValidAddresses

C20_Witness ==
    /\ op = "read" /\ pc = "done" /\ outcome = "ok"
    /\ file = << <<"A", " ", "1">>, <<"bad", " ", "1">>, <<"A", ",", "2">> >>
    /\ returned = << Recipient(<<"A">>, 3 * LAMPORTS_PER_SOL) >>
    /\ Len(last_recipient_warnings) = 2

\* ------------------------------------------------------------------ C17
\* The arguments of the call that has just started are valid.
ValidWalletOpArguments ==
    /\ op' = "pay" => (IsNone(max_per_transaction') \/ Val(max_per_transaction') >= 1)
    /\ op' = "airdrop" => (decimal_amount' > 0 /\ chunk_limit' > 0)

\* C17: with no wallet loaded and otherwise valid arguments, a call of
\* send_mass_payments, request_airdrop or get_balance_sol ends at once with
\* WalletNotLoaded: no transport call is made, nothing reaches the ledger or
\* the faucet, and the pool and the retry configuration are unchanged.
C17_NoWalletNoTransportCall ==
    [][ (pc = "idle" /\ ~wallet /\ op' \in {"pay", "airdrop", "balance"} /\ ValidWalletOpArguments)
        => /\ pc' = "done"
           /\ outcome' = "WalletNotLoadedError"
           /\ raised'.type = "WalletNotLoaded"
           /\ calls' = <<>>
           /\ ledger' = <<>> /\ blockhashes' = 0 /\ airdrops' = 0 /\ request_calls' = 0
           /\ UNCHANGED <<rpc_endpoints, current_endpoint_index, endpoint, client,
                          max_retries_per_endpoint, retry_backoff_seconds, timeout>> ]_vars

C17_Witness ==
    /\ ~wallet
    /\ op = "airdrop" /\ pc = "done" /\ outcome = "WalletNotLoadedError"
    /\ decimal_amount = 30 /\ chunk_limit = 10 /\ airdrop_max_attempts = 2
    /\ calls = <<>> /\ airdrops = 0

\* ------------------------------------------------------------------ C21
SumSeq(s) == LET RECURSIVE Go(_)
                 Go(i) == IF i = 0 THEN 0 ELSE s[i] + Go(i - 1)
             IN Go(Len(s))

\* ceil(a / b) for positive a and b.
CeilDiv(a, b) == (a + b - 1) \div b

\* C21: a request_airdrop(amount, maxPerRequest) that returns normally has
\* requested, one after another, chunks of min(remaining, maxPerRequest); the
\* chunks sum to exactly amount; and it returns one signature per chunk, in
\* request order, ceil(amount / maxPerRequest) of them.  Each request carries
\* the lamports _sol_to_lamports makes of its chunk.
C21_ChunksSumToAmount ==
    (op = "airdrop" /\ pc = "done" /\ outcome = "ok")
    => /\ \A i \in 1..Len(chunk_amounts) :
             LET left == decimal_amount - SumSeq(SubSeq(chunk_amounts, 1, i - 1))
             IN chunk_amounts[i] = Min(left, chunk_limit)
       /\ SumSeq(chunk_amounts) = decimal_amount
       /\ Len(chunk_amounts) = CeilDiv(decimal_amount, chunk_limit)
       /\ Len(airdrop_signatures) = Len(chunk_amounts)
       /\ \A i \in 1..Len(airdrop_signatures) :
             airdrop_signatures[i] = AirdropSignature(i, Val(sol_to_lamports(chunk_amounts[i])))

\* 3 lamports asked for in chunks of 2: a full chunk and a smaller last one.
C21_Witness ==
    /\ op = "airdrop" /\ pc = "done" /\ outcome = "ok"
    /\ decimal_amount = 30 /\ chunk_limit = 20
    /\ chunk_amounts = <<20, 10>>
    /\ Len(airdrop_signatures) = 2

\* ------------------------------------------------------------------ C22
\* C22: with a wallet loaded, a request_airdrop whose amount is <= 0 or whose
\* maxPerRequest is <= 0 fails with ValueError, and it makes no transport call
\* and no airdrop request.
C22_BadArgumentIsValueError ==
    (op = "airdrop" /\ wallet /\ (decimal_amount <= 0 \/ chunk_limit <= 0))
    => /\ pc = "done"
       /\ outcome = "ValueError"
       /\ raised.type \in {"BadAmount", "BadChunkLimit"}
       /\ calls = <<>> /\ request_calls = 0 /\ airdrops = 0
       /\ airdrop_signatures = <<>>

\* A positive amount with a chunk limit of zero.
C22_Witness ==
    /\ op = "airdrop" /\ wallet
    /\ decimal_amount = 30 /\ chunk_limit = 0
    /\ outcome = "ValueError" /\ raised.type = "BadChunkLimit"
    /\ airdrops = 0

\* ------------------------------------------------------------------ C23
\* C23: request_airdrop requests a chunk only after the confirmation wait of
\* every chunk before it has returned success (all signatures but the latest
\* are confirmed, in order), and it has paused once after every confirmed
\* chunk that left an amount remaining: never after the last chunk.
C23_ConfirmThenPause ==
    (op = "airdrop")
    => /\ Len(confirmed) <= Len(airdrop_signatures)
       /\ Len(airdrop_signatures) <= Len(confirmed) + 1
       /\ \A i \in 1..Len(confirmed) : confirmed[i] = airdrop_signatures[i]
       /\ (pc \in {"air_attempt", "air_request"}) => Len(confirmed) = Len(airdrop_signatures)
       /\ pauses = IF remaining > 0 THEN Len(confirmed) ELSE Max(0, Len(confirmed) - 1)
       /\ (pc = "done" /\ outcome = "ok")
             => /\ Len(confirmed) = Len(airdrop_signatures)
                /\ pauses = Len(airdrop_signatures) - 1

\* Three chunks confirmed one after another, with two pauses between them.
C23_Witness ==
    /\ op = "airdrop" /\ pc = "done" /\ outcome = "ok"
    /\ Len(airdrop_signatures) = 3
    /\ confirmed = airdrop_signatures
    /\ pauses = 2

\* ------------------------------------------------------------------ C29
\* How many accepted lines name the address.
Occurrences(address) ==
    Cardinality({ k \in 1..Len(AcceptedLines) : AcceptedLines[k].address = address })

\* The duplicate warnings of the load that name the address.
DuplicateWarningsFor(address) ==
    { w \in 1..Len(last_recipient_warnings) :
         /\ last_recipient_warnings[w].type = "Duplicate"
         /\ last_recipient_warnings[w].detail = address }

NamesConfirmedLevel(st) ==
    st.confirmation_status # "None" /\ Lower(st.confirmation_status) \in {"confirmed", "finalized"}

\* C30: a wait returns success only on a poll whose status is present, has no
\* error and either names the level confirmed or finalized or has a positive
\* confirmation count; a poll that finds the status absent, or present with
\* neither, does not end the wait in success; and a present status without
\* error whose confirmation count is positive ends it in success even when no
\* level is named.
C30_SuccessNeedsConfirmedStatus ==
    /\ (op = "await" /\ pc = "done" /\ outcome = "ok")
       => /\ last_polled # <<>>
          /\ ~IsNone(last_polled[1])
          /\ Val(last_polled[1]).err = "None"
          /\ (NamesConfirmedLevel(Val(last_polled[1])) \/ HasPositiveConfirmations(Val(last_polled[1])))
    /\ (op = "await" /\ last_polled # <<>> /\ ~IsNone(last_polled[1])
          /\ Val(last_polled[1]).err = "None" /\ HasPositiveConfirmations(Val(last_polled[1])))
       => (pc = "done" /\ outcome = "ok")

\* Success on a status that names no level and counts one confirmation, after
\* a poll that found the status absent.
C30_Witness ==
    /\ op = "await" /\ pc = "done" /\ outcome = "ok"
    /\ polls = 2
    /\ last_polled = << Some([err |-> "None", confirmation_status |-> "None",
                              confirmations |-> Some(1)]) >>

\* ------------------------------------------------------------------ C24
\* The places (query, position) where an address was looked up.
Lookups(address) ==
    { <<q, i>> \in (1..Len(queries)) \X (1..MaxAddresses) :
         i <= Len(queries[q].pubkeys) /\ queries[q].pubkeys[i] = address }

\* C24: for a non-empty input, the mapping fetch_balances returns has exactly
\* the input addresses as keys, each once; every key was looked up in exactly
\* one place and maps to the balance of the account found there, which is
\* zero where the account is missing or holds no lamports; so an address that
\* occurs several times in the input has the one value looked up for it.
C24_EveryAddressHasItsBalance ==
    (op = "fetch" /\ pc = "done" /\ outcome = "ok" /\ fetch_addresses # <<>>)
    => /\ ~IsNone(balances)
       /\ LET d == Val(balances)
          IN /\ { d[i].address : i \in 1..Len(d) }
                   = { fetch_addresses[k] : k \in 1..Len(fetch_addresses) }
             /\ \A i, j \in 1..Len(d) : d[i].address = d[j].address => i = j
             /\ \A i \in 1..Len(d) :
                   /\ Cardinality(Lookups(d[i].address)) = 1
                   /\ \A at \in Lookups(d[i].address) :
                         LET account == queries[at[1]].value[at[2]]
                         IN /\ d[i].balance = AccountBalance(account)
                            /\ (IsNone(account) \/ Val(account) = 0) => d[i].balance = 0

\* [A, B, A] with no account for A and one SOL on B.
C24_Witness ==
    /\ op = "fetch" /\ pc = "done" /\ outcome = "ok"
    /\ fetch_addresses = << <<"A">>, <<"B">>, <<"A">> >>
    /\ balances = Some(<< [address |-> <<"A">>, balance |-> 0],
                          [address |-> <<"B">>, balance |-> DecimalScale] >>)

\* ------------------------------------------------------------------ C25
\* The pubkeys of all answered queries, in query order.
RECURSIVE QueriedFrom(_)
QueriedFrom(q) ==
    IF q > Len(queries) THEN <<>> ELSE queries[q].pubkeys \o QueriedFrom(q + 1)
Queried == QueriedFrom(1)

\* Where the address first appears in the input.
FirstAppearance(address) ==
    CHOOSE k \in 1..Len(fetch_addresses) :
        /\ fetch_addresses[k] = address
        /\ \A m \in 1..(k - 1) : fetch_addresses[m] # address

\* C25: a fetch_balances that returns, given u unique addresses and page size
\* p, was answered exactly ceil(u / p) multi-account queries; each query holds
\* between 1 and p addresses, all but the last hold p; and the queries taken
\* together hold every unique address exactly once, in order of first
\* appearance in the input.
C25_OneQueryPerPage ==
    (op = "fetch" /\ pc = "done" /\ outcome = "ok")
    => LET u == Cardinality({ fetch_addresses[k] : k \in 1..Len(fetch_addresses) })
           p == accounts_query_chunk
       IN /\ Len(queries) = CeilDiv(u, p)
          /\ \A q \in 1..Len(queries) :
                /\ Len(queries[q].pubkeys) >= 1
                /\ Len(queries[q].pubkeys) <= p
                /\ q < Len(queries) => Len(queries[q].pubkeys) = p
          /\ Len(Queried) = u
          /\ { Queried[i] : i \in 1..Len(Queried) }
                = { fetch_addresses[k] : k \in 1..Len(fetch_addresses) }
          /\ \A i, j \in 1..Len(Queried) :
                i < j => FirstAppearance(Queried[i]) < FirstAppearance(Queried[j])

\* Three unique addresses and a page size of two: a full page and a last one.
C25_Witness ==
    /\ op = "fetch" /\ pc = "done" /\ outcome = "ok"
    /\ accounts_query_chunk = 2
    /\ fetch_addresses = << <<"B">>, <<"A">>, <<"C">> >>
    /\ Len(queries) = 2
    /\ queries[1].pubkeys = << <<"B">>, <<"A">> >>
    /\ queries[2].pubkeys = << <<"C">> >>

\* ------------------------------------------------------------------ C26
\* C26: a ping whose connectivity check returns not-connected fails with
\* Unhealthy; one whose check returns connected after more than the caller's
\* threshold, measured from the start of the invoke over all its attempts and
\* back-off sleeps, fails with Timeout; and a ping returns, with that elapsed
\* time, exactly when the check returns connected within the threshold.
C26_PingVerdicts ==
    (op = "ping" /\ pc = "done")
    => /\ (is_ok = Some(FALSE))
             => (outcome = "RuntimeError" /\ raised.type = "Unhealthy")
       /\ (is_ok = Some(TRUE) /\ elapsed > ping_timeout)
             => (outcome = "TimeoutError" /\ raised.type = "PingTimeout")
       /\ (outcome = "ok") <=> (is_ok = Some(TRUE) /\ elapsed <= ping_timeout)
       /\ ~IsNone(is_ok) => elapsed = now

\* The check fails once, the invoker sleeps one second and the second attempt
\* answers connected at once: too late for a threshold of zero.
C26_Witness ==
    /\ op = "ping" /\ pc = "done" /\ outcome = "TimeoutError"
    /\ is_ok = Some(TRUE)
    /\ attempts = 1 /\ slept = 1
    /\ elapsed = 1 /\ ping_timeout = 0

\* ------------------------------------------------------------------ C27
MutatingCalls == {"set_endpoint", "set_rpc_pool", "send_mass_payments"}

\* C27: in the window, while a mass payment started by the send button is in
\* flight, no set_endpoint (network selector, connect button), no set_rpc_pool
\* (pool dialog) and no second send_mass_payments starts on the manager.
\* Stated for the steps taken once the payment's _set_busy(True) has been
\* carried out and the buttons are disabled, which is the least the claim says.
C27_MutatingOpsSerialized ==
    [][ (PaymentInFlight /\ button_state = "disabled" /\ after_queue = <<>>)
        => (overlaps' \cap MutatingCalls) = (overlaps \cap MutatingCalls) ]_vars

\* ------------------------------------------------------------------ C28
\* The step is a call of set_rpc_pool, made directly or by set_endpoint.
PoolCallStep == pc = "idle" /\ op' = "set_rpc_pool"

\* C28: no step of invoke, ping, fetch_balances, send_mass_payments,
\* request_airdrop or read_recipients_from_file, succeeding or failing, changes
\* the endpoint list, max_retries_per_endpoint, retry_backoff_seconds or
\* timeout; where such a step changes the active index or endpoint, it is the
\* rotation to the next endpoint of the pool after a failed transport call.
C28_OnlyPoolCallsReconfigure ==
    [][ ~PoolCallStep
        => /\ UNCHANGED <<rpc_endpoints, max_retries_per_endpoint, retry_backoff_seconds, timeout>>
           /\ (current_endpoint_index' # current_endpoint_index \/ endpoint' # endpoint
                  \/ client' # client)
              => /\ call_error' # NoError
                 /\ current_endpoint_index' = (current_endpoint_index + 1) % Len(rpc_endpoints)
                 /\ endpoint' = rpc_endpoints[current_endpoint_index' + 1]
                 /\ client' = NewClient(endpoint', timeout) ]_vars

\* A mass payment on a pool of two endpoints has rotated to the second one
\* after a failed call, the configuration being what set_rpc_pool left.
C28_Witness ==
    /\ op = "pay" /\ pc # "done"
    /\ rpc_endpoints = << <<"a">>, <<"b">> >>
    /\ start_index = 0 /\ current_endpoint_index = 1 /\ endpoint = <<"b">>
    /\ attempts = 1 /\ call_error = "E1"

\* ------------------------------------------------------------------ C33
\* One step of the program, seen from an invoke that returns, has returned
\* or starts.
C33_SuccessAtK ==
    LET N == Len(rpc_endpoints')
        R == max_retries_per_endpoint'
        k == Len(calls')
    IN /\ (op' = "invoke" /\ pc = "perform" /\ pc' = "done" /\ outcome' = "ok") =>
             /\ k = attempts' + 1 /\ k <= N * R
             /\ raised' = NoRaise
             /\ current_endpoint_index' = (start_index' + ((k - 1) \div R)) % N
             /\ endpoint' = rpc_endpoints'[current_endpoint_index' + 1]
             /\ client'.url = endpoint'
             /\ calls'[k].url = endpoint'
             /\ \A j \in 1..(k - 1) :
                   calls'[j].url = rpc_endpoints'[((start_index' + ((j - 1) \div R)) % N) + 1]
             /\ (k = 1 => (UNCHANGED poolVars /\ current_endpoint_index' = start_index'))
       /\ (op = "invoke" /\ pc = "done" /\ outcome = "ok") => UNCHANGED poolVars
       /\ (pc = "idle" /\ op' = "invoke") =>
             (UNCHANGED poolVars /\ start_index' = current_endpoint_index)

\* C33: an invoke whose operation first succeeds on attempt k (k <= N*R)
\* returns after exactly k calls with no error; the active endpoint is then
\* the one the k-th call went to, the starting index advanced by
\* floor((k-1)/R) places modulo N; with k = 1 the pool is as it was when the
\* invoke started; and the endpoint stays active: nothing changes the pool
\* between the return and the next invoke, which starts from that index.
C33_SuccessAtKAlways == [][C33_SuccessAtK]_vars

C33_Witness ==
    /\ op = "invoke" /\ pc = "done" /\ outcome = "ok"
    /\ Len(rpc_endpoints) = 2 /\ max_retries_per_endpoint = 2
    /\ Len(calls) = 3
    /\ current_endpoint_index # start_index
    /\ calls[3].url = endpoint /\ calls[1].url # endpoint

\* ------------------------------------------------------------------ C34
\* The positions of the call log that went to endpoint u.
CallsTo(u) == { j \in 1..Len(calls) : calls[j].url = u }

\* The number of places where the call log moves to another endpoint.
EndpointChanges == Cardinality({ j \in 1..(Len(calls) - 1) : calls[j + 1].url # calls[j].url })

\* C34: when an invoke on a pool of N > 1 endpoints has failed on every
\* attempt, each endpoint has received exactly R attempts, consecutive ones;
\* the index was rotated N times (N - 1 times between the attempts and once
\* more after the last one) and is again the index the invoke started with.
\* On a pool of one endpoint an invoke leaves the index and endpoint alone.
C34_FullCycleReturnsToStart ==
    LET N == Len(rpc_endpoints)
        R == max_retries_per_endpoint
    IN /\ (op = "invoke" /\ pc = "done" /\ outcome = "RuntimeError" /\ N > 1) =>
             /\ raised.type = "RetryExhausted"
             /\ \A i \in 1..N :
                   LET at == CallsTo(rpc_endpoints[i])
                   IN /\ Cardinality(at) = R
                      /\ \A j \in at : \A h \in at : \A g \in j..h : g \in at
             /\ EndpointChanges = N - 1
             /\ calls[Len(calls)].url # endpoint
             /\ current_endpoint_index = start_index
             /\ endpoint = rpc_endpoints[start_index + 1]
             /\ client.url = endpoint
       /\ (op = "invoke" /\ N = 1) =>
             /\ current_endpoint_index = start_index
             /\ current_endpoint_index = 0
             /\ endpoint = rpc_endpoints[1]
             /\ client.url = endpoint
             /\ \A j \in 1..Len(calls) : calls[j].url = endpoint

C34_Witness ==
    /\ op = "invoke" /\ pc = "done" /\ outcome = "RuntimeError"
    /\ Len(rpc_endpoints) = 2 /\ max_retries_per_endpoint = 2
    /\ start_index = 1 /\ current_endpoint_index = 1
    /\ Len(calls) = 4 /\ calls[1].url = rpc_endpoints[2] /\ calls[4].url = rpc_endpoints[1]

\* ------------------------------------------------------------------ C36
\* The pauses pause, 2*pause, ..., m*pause.
GrowingPauses(pause, m) == [a \in 1..m |-> pause * a]

\* C36: when one airdrop chunk has failed because its request failed every
\* time, with M >= 1 attempts per chunk on a pool of N endpoints and R retries
\* per endpoint, exactly M*N*R airdrop transport calls were made for it, the
\* sleep after inner attempt a was pause_seconds*a whatever the pool back-off
\* is, and no status poll was made for the chunk; with M <= 0 no transport
\* call was made and the chunk failed all the same.
C36_ChunkFailsAfterMNR ==
    LET M == airdrop_max_attempts
        N == Len(rpc_endpoints)
        R == max_retries_per_endpoint
    IN (op = "airdrop" /\ pc = "done" /\ raised.type = "AirdropFailed") =>
          /\ outcome = "RuntimeError"
          /\ polls = 0
          /\ Len(airdrop_signatures) = Len(chunk_amounts)
          /\ Len(chunk_amounts) * chunk_limit = decimal_amount - remaining
          /\ IF M >= 1
             THEN /\ request_calls = M * N * R
                  /\ retry_sleeps = GrowingPauses(pause_seconds, M)
                  /\ \A j \in 1..Len(calls) : calls[j].m = "request_airdrop"
             ELSE /\ request_calls = 0
                  /\ retry_sleeps = <<>>
                  /\ calls = <<>>

C36_Witness ==
    /\ op = "airdrop" /\ pc = "done" /\ raised.type = "AirdropFailed"
    /\ airdrop_max_attempts = 2 /\ Len(rpc_endpoints) = 2 /\ max_retries_per_endpoint = 2
    /\ retry_backoff_seconds = 1 /\ pause_seconds = 3
    /\ request_calls = 8 /\ retry_sleeps = <<3, 6>>

\* The same with no attempt allowed.
C36_WitnessNoAttempt ==
    /\ op = "airdrop" /\ pc = "done" /\ raised.type = "AirdropFailed"
    /\ airdrop_max_attempts = 0 /\ request_calls = 0

\* ------------------------------------------------------------------ C35
\* C35: a request_airdrop that fails because of its amounts (amount or
\* max_per_request_sol not positive, or a chunk that converts to zero
\* lamports) fails before any airdrop was requested; once a chunk has been
\* requested the call fails only with a transport, confirmation or
\* transaction error.
C35_AmountFailuresBeforeAnyRequest ==
    (op = "airdrop" /\ pc = "done") =>
        /\ outcome = "ValueError" => (airdrops = 0 /\ airdrop_signatures = <<>>)
        /\ (airdrops > 0 /\ outcome # "ok") => outcome \in {"RuntimeError", "TimeoutError"}

\* ------------------------------------------------------------------ C37
\* The transactions on the ledger that no wait has confirmed.
Unconfirmed(txs) ==
    { i \in 1..Len(txs) : \A j \in 1..Len(confirmed) : confirmed[j] # txs[i] }

\* A step of a chunk's submission: a send_transaction attempt, answered or not.
C37_SubmissionStep ==
    (op = "pay" /\ pc = "send") =>
        /\ tx' = tx /\ instructions' = instructions /\ blockhashes' = blockhashes
        /\ tx.ix = instructions
        /\ calls'[Len(calls')].m = "send_transaction"
        /\ ledger' = ledger \/ ledger' = Append(ledger, tx)
        /\ \A i, j \in 1..Len(ledger') : i # j => ledger'[i] # ledger'[j]
        /\ Unconfirmed(ledger') \subseteq { i \in 1..Len(ledger') : ledger'[i] = tx }
        /\ Cardinality(Unconfirmed(ledger')) <= 1
        /\ LET paid == TransfersOf(ledger')
           IN /\ Len(paid) <= Len(recipients)
              /\ paid = SubSeq(Transfers(recipients), 1, Len(paid))

\* C37: within one chunk of send_mass_payments every submission attempt,
\* whichever endpoint it goes to after retries and rotations, submits the one
\* transaction signed for the chunk (same instructions, same blockhash): at
\* most one transaction of the chunk ever reaches the ledger, and no recipient
\* is paid twice when a submission whose response was lost is repeated.
C37_OneTransactionPerChunk == [][C37_SubmissionStep]_vars

\* The second chunk's transaction reached the ledger on a submission whose
\* response was lost; the pool has rotated and the submission is to be repeated
\* on the other endpoint.
C37_Witness ==
    /\ op = "pay" /\ pc = "send"
    /\ attempts = 1 /\ call_error = "E1"
    /\ Len(calls) = 1 /\ calls[1].m = "send_transaction"
    /\ endpoint # calls[1].url
    /\ Len(confirmed) = 1
    /\ Len(ledger) = 2 /\ ledger[2] = tx

\* ------------------------------------------------------------------ C38
\* The warnings the call that has just ended produced itself: none when the
\* file is missing, those of the lines read before an error escaped, and
\* otherwise the line warnings followed by the duplicate warnings.
ProducedWarnings ==
    LET parsed == ParseLines(file, 1, default_amount_sol, <<>>, <<>>)
        merged == Aggregate(parsed.recipients_raw, <<>>, <<>>)
    IN IF ~file_exists THEN <<>>
       ELSE IF parsed.failed THEN parsed.warnings
       ELSE parsed.warnings \o DuplicateWarnings(merged.duplicates_counter)

\* The call ended by raising before line 286 was reached.
EndedBeforeStore == raised.type \in {"FileNotFound", "ValueError"}

\* C38: after every call of read_recipients_from_file, returning or failing
\* (missing file, no valid recipient, or an error escaping the line parsing),
\* last_recipient_warnings holds warnings that call produced (all of them when
\* the lines were all read), never those of an earlier load.
C38_WarningsAreOfThisCall ==
    (op = "read" /\ pc = "done") =>
        IF EndedBeforeStore
        THEN /\ Len(last_recipient_warnings) <= Len(ProducedWarnings)
             /\ last_recipient_warnings
                   = SubSeq(ProducedWarnings, 1, Len(last_recipient_warnings))
        ELSE last_recipient_warnings = ProducedWarnings

\* ------------------------------------------------------------------ C31
\* The ways a wait ends: success, TransactionFailed, ConfirmationTimeout, or
\* the RetryExhausted of a status query.
WaitEnded ==
    /\ op = "await" /\ pc = "done"
    /\ \/ outcome = "ok" /\ raised = NoRaise
       \/ outcome = "RuntimeError" /\ raised.type = "TransactionFailed"
       \/ outcome = "TimeoutError" /\ raised.type = "ConfirmationTimeout"
       \/ outcome = "RuntimeError" /\ raised.type = "RetryExhausted"

\* C31: where every transport call returns or raises and the sleeps advance
\* the clock, a wait that is polling ends, in one of the four ways; it does
\* not poll forever.
C31_WaitTerminates == (op = "await" /\ pc = "poll") ~> WaitEnded

\* A wait that polled twice, saw a pending status, reached its deadline and
\* ended with ConfirmationTimeout.
C31_Witness ==
    /\ op = "await" /\ pc = "done" /\ outcome = "TimeoutError"
    /\ raised.type = "ConfirmationTimeout"
    /\ polls = 2 /\ now >= deadline /\ deadline = 2
    /\ ~IsNone(last_status)

\* ------------------------------------------------------------------ C32
\* C32: while invocations on one manager interleave with each other and with
\* a pool reconfiguration, whenever no set_rpc_pool is half-way through its
\* assignments the active index is within the bounds of the pool and the
\* active endpoint is a member of the pool, and no rotation ever fails with
\* an index out of range.
C32_PoolStaysConsistent ==
    /\ pool_call.pc = "idle" =>
          /\ current_endpoint_index \in 0..(Len(rpc_endpoints) - 1)
          /\ \E i \in 1..Len(rpc_endpoints) : rpc_endpoints[i] = endpoint
    /\ \A t \in 1..MaxThreads : bg_threads[t].error # "IndexError"

\* ------------------------------------------------------------------ C39
\* One step of the window, seen from its send threads and its loads.
C39_SendStep ==
    /\ \A t \in 1..MaxSends :
          /\ send_jobs'[t].at # "free" =>
                /\ ValuesOf(heap', send_jobs'[t].args) = send_jobs'[t].asked
                /\ Len(send_jobs'[t].built) <= Len(send_jobs'[t].asked)
                /\ send_jobs'[t].built
                     = SubSeq(send_jobs'[t].asked, 1, Len(send_jobs'[t].built))
          /\ (send_jobs[t].at # "free" /\ send_jobs'[t].at # "free") =>
                /\ send_jobs'[t].args = send_jobs[t].args
                /\ send_jobs'[t].asked = send_jobs[t].asked
          /\ (send_jobs[t].at = "free" /\ send_jobs'[t].at # "free") =>
                (confirm_open /\ send_jobs'[t].asked = ValuesOf(heap, shown))
    /\ load_result' = "failed" => (shown' = shown /\ heap' = heap)
    /\ (load_result' = "loaded" /\ <<heap, shown>>' # <<heap, shown>>) =>
          /\ send_jobs' = send_jobs
          /\ \A i \in 1..Len(shown') : \A j \in 1..Len(shown) : shown'[i] # shown[j]
          /\ \A k \in 1..Len(heap) : heap'[k] = heap[k]

\* C39: the recipients an in-flight mass payment pays are those the window
\* showed when the user confirmed the send: a file load or a default-amount
\* reload made while the payment runs replaces the list shown and changes
\* neither the addresses nor the amounts of the payment, and a load that
\* fails leaves the list shown as it was.
C39_InFlightPaymentKeepsItsList == [][C39_SendStep]_vars

\* A payment of A with 1 SOL has built its transfer while a reload has just
\* replaced the list shown by A with 2 SOL.
C39_Witness ==
    \E t \in 1..MaxSends :
        /\ send_jobs[t].at = "run"
        /\ send_jobs[t].asked = << Recipient(<<"A">>, LAMPORTS_PER_SOL) >>
        /\ send_jobs[t].built = send_jobs[t].asked
        /\ load_result = "loaded"
        /\ ValuesOf(heap, shown) = << Recipient(<<"A">>, 2 * LAMPORTS_PER_SOL) >>
        /\ button_state = "disabled"

=============================================================================
